---- MODULE Spec2Model ----
(***************************************************************************)
(* Cost estimator for a sharded document store.                            *)
(*                                                                         *)
(* The program is a library of pure functions over a schema tree           *)
(* (app/core, app/cost_model) together with an earlier revision of the    *)
(* same functions (app/size_calculator.py, app/operator_costs.py,          *)
(* app/operators.py) that the example scripts still import.  The state of  *)
(* the model is the parsed database and the record of the last call made   *)
(* on it: which function, with which arguments, and what it returned or    *)
(* raised.                                                                 *)
(***************************************************************************)
EXTENDS Integers, Sequences, FiniteSets, TLC

VARIABLES
    collections,    \* Database.collections: collection name -> Collection
    result          \* the last call: [op, args, err, ret]

vars == <<collections, result>>

-----------------------------------------------------------------------------
(* Bounds of the model.                                                    *)

\* Largest number of Field nodes in the schema of one collection.
MaxNodes == 3

\* Largest doc_count of a collection in the size model.
MaxDocCount == 2

\* Largest number of collections in a database.
MaxCollections == 2

\* Largest number of servers in direct calls of the cost formula.
MaxServers == 2

\* Longest list of filter types, and of projection types, in those calls.
MaxTypes == 2

\* Longest list of filter keys, and of primary-key fields.
MaxKeys == 2

-----------------------------------------------------------------------------
(* Data model: app/core/models.py                                          *)

Field(name, field_type, subfields, avg_items) ==
    [name |-> name, field_type |-> field_type,
     subfields |-> subfields, avg_items |-> avg_items]

Collection(name, fields, doc_count, docsize) ==
    [name |-> name, fields |-> fields, doc_count |-> doc_count,
     doc_size |-> docsize]

NoCall == [op |-> "none", args |-> <<>>, err |-> "none", ret |-> 0]

Call(op, args, ret) == [op |-> op, args |-> args, err |-> "none", ret |-> ret]

Raise(op, args, err) == [op |-> op, args |-> args, err |-> err, ret |-> 0]

-----------------------------------------------------------------------------
(* Generic helpers standing for Python built-ins.                          *)

\* sum(xs) over a list of integers, left to right from 0.
RECURSIVE SumSeq(_)
SumSeq(xs) == IF xs = <<>> THEN 0 ELSE SumSeq(SubSeq(xs, 1, Len(xs) - 1)) + xs[Len(xs)]

\* Sum of an integer-valued function over its finite domain, in no order.
RECURSIVE SumOver(_)
SumOver(f) ==
    IF DOMAIN f = {} THEN 0
    ELSE LET x == CHOOSE y \in DOMAIN f : TRUE
         IN  f[x] + SumOver([y \in DOMAIN f \ {x} |-> f[y]])

\* The value of a local variable: the one element of a singleton set.
Only(S) == CHOOSE x \in S : TRUE

\* set(xs) of a list.
ToSet(xs) == {xs[i] : i \in DOMAIN xs}

-----------------------------------------------------------------------------
(* Size model: app/core/size_calc.py                                       *)

TYPE_SIZES ==
    [t \in {"integer", "number", "string", "longstring", "date"} |->
        CASE t = "integer" -> 8
          [] t = "number" -> 8
          [] t = "string" -> 80
          [] t = "longstring" -> 200
          [] t = "date" -> 20]

OVERHEAD == 12

RECURSIVE value_size(_)
value_size(field) ==
    IF field.field_type \in DOMAIN TYPE_SIZES
    THEN TYPE_SIZES[field.field_type]
    ELSE IF field.field_type = "object"
    THEN SumSeq([i \in DOMAIN field.subfields |-> value_size(field.subfields[i])])
    ELSE IF field.field_type = "array"
    THEN IF field.subfields = <<>>
         THEN 0
         ELSE field.avg_items * value_size(field.subfields[1])
    ELSE TYPE_SIZES["string"]

RECURSIVE key_count(_)
key_count(field) ==
    IF field.field_type \in DOMAIN TYPE_SIZES
    THEN 1
    ELSE IF field.field_type = "object"
    THEN 1 + SumSeq([i \in DOMAIN field.subfields |-> key_count(field.subfields[i])])
    ELSE IF field.field_type = "array"
    THEN IF field.subfields # <<>>
         THEN 1 + key_count(field.subfields[1])
         ELSE 1
    ELSE 1

\* doc_size charging the overhead for the root keys only.
doc_size_root_keys(collection) ==
    SumSeq([i \in DOMAIN collection.fields |-> value_size(collection.fields[i])])
    + Len(collection.fields) * OVERHEAD

doc_size(collection) ==
    LET total_value == SumSeq([i \in DOMAIN collection.fields |->
                                  value_size(collection.fields[i])])
        total_keys  == SumSeq([i \in DOMAIN collection.fields |->
                                  key_count(collection.fields[i])])
    IN  total_value + total_keys * OVERHEAD

\* collection_size reading the memoized doc_size attribute of the Collection.
collection_size_memoized(collection) == collection.doc_size * collection.doc_count

collection_size(collection) == doc_size(collection) * collection.doc_count

\* sum(collection_size(c) for c in database.collections.values())
RECURSIVE db_size(_)
db_size(colls) ==
    IF DOMAIN colls = {}
    THEN 0
    ELSE LET c == CHOOSE n \in DOMAIN colls : TRUE
         IN  collection_size(colls[c])
             + db_size([n \in DOMAIN colls \ {c} |-> colls[n]])

-----------------------------------------------------------------------------
(* Size model, earlier revision: app/size_calculator.py                    *)
(* An array without an item child raises IndexError at subfields[0].       *)

RECURSIVE legacy_raises(_)
legacy_raises(field) ==
    IF field.field_type \in DOMAIN TYPE_SIZES
    THEN FALSE
    ELSE IF field.field_type = "object"
    THEN \E i \in DOMAIN field.subfields : legacy_raises(field.subfields[i])
    ELSE IF field.field_type = "array"
    THEN field.subfields = <<>> \/ legacy_raises(field.subfields[1])
    ELSE FALSE

RECURSIVE legacy_value_size(_)
legacy_value_size(field) ==
    IF field.field_type \in DOMAIN TYPE_SIZES
    THEN TYPE_SIZES[field.field_type]
    ELSE IF field.field_type = "object"
    THEN SumSeq([i \in DOMAIN field.subfields |-> legacy_value_size(field.subfields[i])])
    ELSE IF field.field_type = "array"
    THEN field.avg_items * legacy_value_size(field.subfields[1])
    ELSE TYPE_SIZES["string"]

RECURSIVE legacy_key_count(_)
legacy_key_count(field) ==
    IF field.field_type \in DOMAIN TYPE_SIZES
    THEN 1
    ELSE IF field.field_type = "object"
    THEN 1 + SumSeq([i \in DOMAIN field.subfields |-> legacy_key_count(field.subfields[i])])
    ELSE IF field.field_type = "array"
    THEN 1 + field.avg_items * legacy_key_count(field.subfields[1])
    ELSE 1

legacy_doc_size(collection) ==
    LET total_value == SumSeq([i \in DOMAIN collection.fields |->
                                  legacy_value_size(collection.fields[i])])
        total_keys  == SumSeq([i \in DOMAIN collection.fields |->
                                  legacy_key_count(collection.fields[i])])
    IN  total_value + total_keys * OVERHEAD

-----------------------------------------------------------------------------
(* Exact arithmetic for Python's float values.                             *)
(*                                                                         *)
(* A number is [n, d, e2, e5], standing for (n / d) * 2^e2 * 5^e5, with d  *)
(* positive, n and d coprime to each other and to 10, and zero written     *)
(* [0, 1, 0, 0]; the representation of a value is unique, so equality of   *)
(* records is equality of values.  Every cost below is a sum, product or   *)
(* quotient of such numbers; the rounding of binary floating point is not  *)
(* modelled.                                                               *)

Abs(x) == IF x < 0 THEN -x ELSE x

Min(a, b) == IF a <= b THEN a ELSE b

\* max(a, b) of two integers.
Max(a, b) == IF a >= b THEN a ELSE b

RECURSIVE Gcd(_, _)
Gcd(a, b) == IF b = 0 THEN a ELSE Gcd(b, a % b)

RECURSIVE Pow(_, _)
Pow(b, k) == IF k = 0 THEN 1 ELSE b * Pow(b, k - 1)

\* How many times the prime p divides x (x nonzero).
RECURSIVE Mult(_, _)
Mult(x, p) == IF x % p = 0 THEN 1 + Mult(x \div p, p) ELSE 0

QZero == [n |-> 0, d |-> 1, e2 |-> 0, e5 |-> 0]

\* (n / d) * 2^e2 * 5^e5 in normal form, for d nonzero.
QNorm(n, d, e2, e5) ==
    IF n = 0 THEN QZero
    ELSE LET sn == IF d < 0 THEN -n ELSE n
             an == Abs(n)
             ad == Abs(d)
             n2 == Mult(an, 2)
             n5 == Mult(an, 5)
             d2 == Mult(ad, 2)
             d5 == Mult(ad, 5)
             rn == an \div (Pow(2, n2) * Pow(5, n5))
             rd == ad \div (Pow(2, d2) * Pow(5, d5))
             g  == Gcd(rn, rd)
         IN  [n  |-> (IF sn < 0 THEN -1 ELSE 1) * (rn \div g),
              d  |-> rd \div g,
              e2 |-> e2 + n2 - d2,
              e5 |-> e5 + n5 - d5]

\* The integer i, the fraction n / d, and the decimal literal m * 10^e.
QInt(i) == QNorm(i, 1, 0, 0)
QFrac(n, d) == QNorm(n, d, 0, 0)
QDec(m, e) == QNorm(m, 1, e, e)

QMul(a, b) == QNorm(a.n * b.n, a.d * b.d, a.e2 + b.e2, a.e5 + b.e5)

\* a / b, for b nonzero.
QDiv(a, b) == QNorm(a.n * b.d, a.d * b.n, a.e2 - b.e2, a.e5 - b.e5)

QAdd(a, b) ==
    IF a.n = 0 THEN b
    ELSE IF b.n = 0 THEN a
    ELSE LET m2 == Min(a.e2, b.e2)
             m5 == Min(a.e5, b.e5)
             an == a.n * Pow(2, a.e2 - m2) * Pow(5, a.e5 - m5)
             bn == b.n * Pow(2, b.e2 - m2) * Pow(5, b.e5 - m5)
         IN  QNorm(an * b.d + bn * a.d, a.d * b.d, m2, m5)

QNeg(a) == [a EXCEPT !.n = -a.n]

QSub(a, b) == QAdd(a, QNeg(b))

\* a <= b
QLe(a, b) == QSub(a, b).n <= 0

\* p1/q1 <= p2/q2 for positive integers, by the integer parts and then the
\* reciprocals of the fractional parts (no product is formed).
RECURSIVE FracLe(_, _, _, _)
FracLe(p1, q1, p2, q2) ==
    IF p1 \div q1 # p2 \div q2 THEN p1 \div q1 < p2 \div q2
    ELSE IF p1 % q1 = 0 THEN TRUE
    ELSE IF p2 % q2 = 0 THEN FALSE
    ELSE FracLe(q2, p2 % q2, q1, p1 % q1)

\* a <= b for a, b >= 0, without bringing them to a common denominator:
\* the powers of 2 and 5 by which they differ go to the denominators.
QAtMost(a, b) ==
    IF a.n = 0 THEN TRUE
    ELSE IF b.n = 0 THEN FALSE
    ELSE LET k2 == a.e2 - b.e2
             k5 == a.e5 - b.e5
             q1 == a.d * Pow(2, Max(-k2, 0)) * Pow(5, Max(-k5, 0))
             q2 == b.d * Pow(2, Max(k2, 0)) * Pow(5, Max(k5, 0))
         IN  FracLe(a.n, q1, b.n, q2)

-----------------------------------------------------------------------------
(* Domain constants: app/config.py                                         *)

BANDWIDTH_Bps == QDec(1, 8)
RAM_Bps == QDec(25, 9)
CO2_NETWORK_RATE == QDec(110, -4)
CO2_RAM_RATE == QDec(280, -4)
PRICE_RATE == QDec(11, -3)
INDEX_SIZE == 1000000

-----------------------------------------------------------------------------
(* Cost formula: app/cost_model/formulas.py                                *)

CostOutput(result_docs, result_size_bytes, size_query, size_msg, vol_network, ram_volume, ram_volume_total, time_network, time_ram, time_total, co2, price) ==
    [result_docs |-> result_docs, result_size_bytes |-> result_size_bytes,
     size_query |-> size_query, size_msg |-> size_msg,
     vol_network |-> vol_network, ram_volume |-> ram_volume,
     ram_volume_total |-> ram_volume_total, time_network |-> time_network,
     time_ram |-> time_ram, time_total |-> time_total,
     co2 |-> co2, price |-> price]

compute_field_size(field_type) == TYPE_SIZES[field_type]

compute_attribute_size(field_type) == OVERHEAD + compute_field_size(field_type)

size_of_fields(field_types) ==
    SumSeq([i \in DOMAIN field_types |-> compute_attribute_size(field_types[i])])

\* bytes_to_gb dividing by 2^30, as app/operator_costs.py does.
bytes_to_gb_binary(x) == QDiv(x, QNorm(1, 1, 30, 0))

bytes_to_gb(x) == QDiv(x, QDec(1, 9))

\* compute_query_size charging each distinct type of the query once.
compute_query_size_dedup(filter_types, projection_types) ==
    LET types == ToSet(filter_types) \cup ToSet(projection_types)
    IN  SumOver([t \in types |-> OVERHEAD + TYPE_SIZES[t]])

compute_query_size(filter_types, projection_types) ==
    LET value_filters == SumSeq([i \in DOMAIN filter_types |->
                                    TYPE_SIZES[filter_types[i]]])
        value_proj    == SumSeq([i \in DOMAIN projection_types |->
                                    TYPE_SIZES[projection_types[i]]])
        key_overhead  == (Len(filter_types) + Len(projection_types)) * OVERHEAD
    IN  value_filters + value_proj + key_overhead

\* ram_local as the larger of the index and the scanned data.
ram_local_max(a) ==
    LET ram_scanned_data == QMul(QMul(a.local_docs, a.selectivity), a.doc_size)
        index == QInt(a.indexes_per_shard * INDEX_SIZE)
    IN  IF QLe(index, ram_scanned_data) THEN ram_scanned_data ELSE index

\* Lines 110-111: the RAM read on one working server.
ram_local_of(a) ==
    LET ram_scanned_data == QMul(QMul(a.local_docs, a.selectivity), a.doc_size)
    IN  QAdd(QInt(a.indexes_per_shard * INDEX_SIZE), ram_scanned_data)

\* The idle servers' RAM without the clamp at zero.
inactive_ram_cost_unclamped(a) ==
    IF a.s = 1 /\ a.servers_total > 1
    THEN 0
    ELSE (a.servers_total - a.servers_working) * (a.indexes_per_shard * INDEX_SIZE)

\* The idle servers' RAM charged whatever the routing, as in
\* app/operator_costs.py.
inactive_ram_cost_always(a) ==
    Max(a.servers_total - a.servers_working, 0) * (a.indexes_per_shard * INDEX_SIZE)

\* Lines 124-135: the RAM charged for the servers that do not work.
inactive_ram_cost_of(a) ==
    LET inactive_count == Max(a.servers_total - a.servers_working, 0)
    IN  IF a.s = 1 /\ a.servers_total > 1
        THEN 0
        ELSE inactive_count * (a.indexes_per_shard * INDEX_SIZE)

\* operator_cost_excel(s, result_docs, filter_types, projection_types,
\* local_docs, selectivity, doc_size, servers_working, servers_total,
\* indexes_per_shard), the arguments given as one record.
operator_cost_excel(a) ==
    LET size_query  == compute_query_size(a.filter_types, a.projection_types)
        size_msg    == size_of_fields(a.projection_types)
        vol_network == QAdd(QInt(a.s * size_query),
                            QMul(a.result_docs, QInt(size_msg)))
        ram_local   == ram_local_of(a)
        active_ram_cost   == QMul(QInt(a.servers_working), ram_local)
        inactive_ram_cost == inactive_ram_cost_of(a)
        ram_volume_total  == QAdd(active_ram_cost, QInt(inactive_ram_cost))
        ram_volume   == ram_local
        time_network == QDiv(vol_network, BANDWIDTH_Bps)
        time_ram     == QDiv(ram_local, RAM_Bps)
        time_total   == QAdd(time_network, time_ram)
        ram_gb       == bytes_to_gb(ram_volume_total)
        net_gb       == bytes_to_gb(vol_network)
        co2_network  == QMul(net_gb, CO2_NETWORK_RATE)
        co2_ram      == QMul(ram_gb, CO2_RAM_RATE)
        co2          == QAdd(co2_network, co2_ram)
        price        == QMul(net_gb, PRICE_RATE)
    IN  CostOutput(a.result_docs, QMul(a.result_docs, QInt(size_msg)),
                   size_query, size_msg, vol_network, ram_volume,
                   ram_volume_total, time_network, time_ram, time_total,
                   co2, price)

-----------------------------------------------------------------------------
(* Field-type resolver: app/core/schema_tools.py                           *)
(* An optional value is <<>> for None and <<x>> for x.  Both errors of the *)
(* resolver are ValueError in the code; they are told apart here by the    *)
(* names FieldNotFound and UnsupportedField.                               *)

\* _find_field testing every sibling's name before descending into any of
\* them.
RECURSIVE find_field_siblings_first(_, _)
find_field_siblings_first(fields, name) ==
    LET Nested(f) == IF f.field_type = "object"
                         \/ (f.field_type = "array" /\ f.subfields # <<>>)
                     THEN find_field_siblings_first(f.subfields, name)
                     ELSE <<>>
        named == {i \in DOMAIN fields : fields[i].name = name}
        inside == {i \in DOMAIN fields : Nested(fields[i]) # <<>>}
    IN  IF named # {}
        THEN <<fields[CHOOSE i \in named : \A j \in named : i <= j]>>
        ELSE IF inside # {}
        THEN Nested(fields[CHOOSE i \in inside : \A j \in inside : i <= j])
        ELSE <<>>

RECURSIVE find_field(_, _)
find_field(fields, name) ==
    IF fields = <<>> THEN <<>>
    ELSE LET f == Head(fields)
             nested == IF f.field_type = "object"
                       THEN find_field(f.subfields, name)
                       ELSE IF f.field_type = "array" /\ f.subfields # <<>>
                       THEN find_field(f.subfields, name)
                       ELSE <<>>
         IN  IF f.name = name THEN <<f>>
             ELSE IF nested # <<>> THEN nested
             ELSE find_field(Tail(fields), name)

\* xs repeated k times.
RECURSIVE Repeat(_, _)
Repeat(xs, k) == IF k <= 0 THEN <<>> ELSE xs \o Repeat(xs, k - 1)

\* _collect_primitive_types expanding an array's item once per element.
RECURSIVE collect_primitive_types_by_arity(_)
collect_primitive_types_by_arity(field) ==
    IF field.field_type \in DOMAIN TYPE_SIZES
    THEN [err |-> "none", types |-> <<field.field_type>>]
    ELSE IF field.field_type = "object"
    THEN LET Extend(acc, sub) ==
                 IF acc.err # "none" THEN acc
                 ELSE LET c == collect_primitive_types_by_arity(sub)
                      IN  IF c.err # "none" THEN c
                          ELSE [err |-> "none", types |-> acc.types \o c.types]
             Loop[i \in 0..Len(field.subfields)] ==
                 IF i = 0 THEN [err |-> "none", types |-> <<>>]
                 ELSE Extend(Loop[i - 1], field.subfields[i])
         IN  Loop[Len(field.subfields)]
    ELSE IF field.field_type = "array" /\ field.subfields # <<>>
    THEN LET c == collect_primitive_types_by_arity(field.subfields[1])
         IN  IF c.err # "none" THEN c
             ELSE [err |-> "none", types |-> Repeat(c.types, field.avg_items)]
    ELSE [err |-> "UnsupportedField", types |-> <<>>]

\* _collect_primitive_types returning no types for an array without an item
\* child, as value_size returns 0 for it.
RECURSIVE collect_primitive_types_lenient(_)
collect_primitive_types_lenient(field) ==
    IF field.field_type \in DOMAIN TYPE_SIZES
    THEN [err |-> "none", types |-> <<field.field_type>>]
    ELSE IF field.field_type = "object"
    THEN LET Extend(acc, sub) ==
                 IF acc.err # "none" THEN acc
                 ELSE LET c == collect_primitive_types_lenient(sub)
                      IN  IF c.err # "none" THEN c
                          ELSE [err |-> "none", types |-> acc.types \o c.types]
             Loop[i \in 0..Len(field.subfields)] ==
                 IF i = 0 THEN [err |-> "none", types |-> <<>>]
                 ELSE Extend(Loop[i - 1], field.subfields[i])
         IN  Loop[Len(field.subfields)]
    ELSE IF field.field_type = "array"
    THEN IF field.subfields # <<>>
         THEN collect_primitive_types_lenient(field.subfields[1])
         ELSE [err |-> "none", types |-> <<>>]
    ELSE [err |-> "UnsupportedField", types |-> <<>>]

\* [err, types]: the primitive types under a field, or UnsupportedField.
RECURSIVE collect_primitive_types(_)
collect_primitive_types(field) ==
    IF field.field_type \in DOMAIN TYPE_SIZES
    THEN [err |-> "none", types |-> <<field.field_type>>]
    ELSE IF field.field_type = "object"
    THEN LET Extend(acc, sub) ==
                 IF acc.err # "none" THEN acc
                 ELSE LET c == collect_primitive_types(sub)
                      IN  IF c.err # "none" THEN c
                          ELSE [err |-> "none", types |-> acc.types \o c.types]
             Loop[i \in 0..Len(field.subfields)] ==
                 IF i = 0 THEN [err |-> "none", types |-> <<>>]
                 ELSE Extend(Loop[i - 1], field.subfields[i])
         IN  Loop[Len(field.subfields)]
    ELSE IF field.field_type = "array" /\ field.subfields # <<>>
    THEN collect_primitive_types(field.subfields[1])
    ELSE [err |-> "UnsupportedField", types |-> <<>>]

\* resolve_field_types leaving out the names it does not find.
resolve_field_types_skip_missing(coll, fields) ==
    LET Step(acc, fname) ==
            IF acc.err # "none" THEN acc
            ELSE LET fld == find_field(coll.fields, fname)
                 IN  IF fld = <<>>
                     THEN acc
                     ELSE LET c == collect_primitive_types(fld[1])
                          IN  IF c.err # "none" THEN c
                              ELSE [err |-> "none", types |-> acc.types \o c.types]
        Loop[i \in 0..Len(fields)] ==
            IF i = 0 THEN [err |-> "none", types |-> <<>>]
            ELSE Step(Loop[i - 1], fields[i])
    IN  Loop[Len(fields)]

\* [err, types]: the types the names expand to, in order, or the first error.
resolve_field_types(coll, fields) ==
    LET Step(acc, fname) ==
            IF acc.err # "none" THEN acc
            ELSE LET fld == find_field(coll.fields, fname)
                 IN  IF fld = <<>>
                     THEN [err |-> "FieldNotFound", types |-> <<>>]
                     ELSE LET c == collect_primitive_types(fld[1])
                          IN  IF c.err # "none" THEN c
                              ELSE [err |-> "none", types |-> acc.types \o c.types]
        Loop[i \in 0..Len(fields)] ==
            IF i = 0 THEN [err |-> "none", types |-> <<>>]
            ELSE Step(Loop[i - 1], fields[i])
    IN  Loop[Len(fields)]

-----------------------------------------------------------------------------
(* Operator layer: app/cost_model/operations.py                            *)

default_selectivity(filter_key, distinct_values) ==
    IF filter_key \in DOMAIN distinct_values /\ distinct_values[filter_key] > 0
    THEN QFrac(1, distinct_values[filter_key])
    ELSE QDec(1, -1)

\* detect_primary_key_result testing for any primary-key field in the filter.
detect_primary_key_any(filter_keys, pk_fields) ==
    IF pk_fields = <<>> \/ pk_fields[1] = <<>>
    THEN FALSE
    ELSE ToSet(pk_fields[1]) \cap ToSet(filter_keys) # {}

\* pk_fields is optional: <<>> is None, <<xs>> is the list xs.
detect_primary_key_result(filter_keys, pk_fields) ==
    IF pk_fields = <<>> \/ pk_fields[1] = <<>>
    THEN FALSE
    ELSE ToSet(pk_fields[1]) \subseteq ToSet(filter_keys)

\* Variant: every shard on a match of the sharding key, one shard otherwise.
shards_contacted_inverted(q) ==
    IF q.sharding_key \in ToSet(q.filter_keys) THEN q.servers ELSE 1

\* S = 1 if sharding_key in filter_keys else servers
shards_contacted(q) ==
    IF q.sharding_key \in ToSet(q.filter_keys) THEN 1 ELSE q.servers

\* filter_with_sharding_call letting an explicit override take priority over
\* the primary-key shortcut.
filter_with_sharding_call_override_first(coll, q) ==
    LET S == IF q.sharding_key \in ToSet(q.filter_keys) THEN 1 ELSE q.servers
        override == q.selectivity # <<>> /\ q.selectivity[1] # QZero
        pk == ~override /\ detect_primary_key_result(q.filter_keys, q.pk_fields)
        sel == IF pk THEN QFrac(1, coll.doc_count)
               ELSE IF override THEN q.selectivity[1]
               ELSE default_selectivity(q.filter_keys[1], q.distinct_values)
        result_docs == IF pk THEN QInt(1) ELSE QMul(QInt(coll.doc_count), sel)
        filter_types == resolve_field_types(coll, q.filter_keys)
        projection_types == resolve_field_types(coll, q.select_fields)
    IN  IF pk /\ coll.doc_count = 0
        THEN [err |-> "ZeroDivisionError", args |-> <<>>]
        ELSE IF ~pk /\ ~override /\ q.filter_keys = <<>>
        THEN [err |-> "IndexError", args |-> <<>>]
        ELSE IF filter_types.err # "none"
        THEN [err |-> filter_types.err, args |-> <<>>]
        ELSE IF projection_types.err # "none"
        THEN [err |-> projection_types.err, args |-> <<>>]
        ELSE IF q.servers = 0
        THEN [err |-> "ZeroDivisionError", args |-> <<>>]
        ELSE [err |-> "none",
              args |-> [s |-> S,
                        result_docs |-> result_docs,
                        filter_types |-> filter_types.types,
                        projection_types |-> projection_types.types,
                        local_docs |-> QFrac(coll.doc_count, q.servers),
                        selectivity |-> sel,
                        doc_size |-> QInt(coll.doc_size),
                        servers_working |-> S,
                        servers_total |-> q.servers,
                        indexes_per_shard |-> q.indexes_per_shard]]

\* The keyword arguments filter_with_sharding passes to operator_cost_excel,
\* or the error raised before the call.  q holds the arguments filter_keys,
\* select_fields, sharding_key, distinct_values, servers, selectivity
\* (optional), pk_fields (optional), servers_working, indexes_per_shard.
filter_with_sharding_call(coll, q) ==
    LET S == shards_contacted(q)
        pk == detect_primary_key_result(q.filter_keys, q.pk_fields)
        \* `selectivity or default_selectivity(...)`: None and 0 are falsy
        override == q.selectivity # <<>> /\ q.selectivity[1] # QZero
        sel == IF pk THEN QFrac(1, coll.doc_count)
               ELSE IF override THEN q.selectivity[1]
               ELSE default_selectivity(q.filter_keys[1], q.distinct_values)
        result_docs == IF pk THEN QInt(1) ELSE QMul(QInt(coll.doc_count), sel)
        filter_types == resolve_field_types(coll, q.filter_keys)
        projection_types == resolve_field_types(coll, q.select_fields)
    IN  IF pk /\ coll.doc_count = 0
        THEN [err |-> "ZeroDivisionError", args |-> <<>>]
        ELSE IF ~pk /\ ~override /\ q.filter_keys = <<>>
        THEN [err |-> "IndexError", args |-> <<>>]
        ELSE IF filter_types.err # "none"
        THEN [err |-> filter_types.err, args |-> <<>>]
        ELSE IF projection_types.err # "none"
        THEN [err |-> projection_types.err, args |-> <<>>]
        ELSE IF q.servers = 0
        THEN [err |-> "ZeroDivisionError", args |-> <<>>]
        ELSE [err |-> "none",
              args |-> [s |-> S,
                        result_docs |-> result_docs,
                        filter_types |-> filter_types.types,
                        projection_types |-> projection_types.types,
                        local_docs |-> QFrac(coll.doc_count, q.servers),
                        selectivity |-> sel,
                        doc_size |-> QInt(coll.doc_size),
                        servers_working |-> S,
                        servers_total |-> q.servers,
                        indexes_per_shard |-> q.indexes_per_shard]]

\* [err, ret]: the CostOutput, or the error.
filter_with_sharding(coll, q) ==
    LET c == filter_with_sharding_call(coll, q)
    IN  IF c.err # "none"
        THEN [err |-> c.err, ret |-> 0]
        ELSE [err |-> "none", ret |-> operator_cost_excel(c.args)]

\* The arguments filter_without_sharding passes to operator_cost_excel with
\* the servers contacted taken from servers_working.
filter_without_sharding_call_working(coll, q, query_fields) ==
    LET pk == detect_primary_key_result(q.filter_keys, q.pk_fields)
        override == q.selectivity # <<>> /\ q.selectivity[1] # QZero
        sel == IF pk THEN QFrac(1, coll.doc_count)
               ELSE IF override THEN q.selectivity[1]
               ELSE default_selectivity(q.filter_keys[1], q.distinct_values)
        result_docs == IF pk THEN QInt(1) ELSE QMul(QInt(coll.doc_count), sel)
        query_types == resolve_field_types(coll, query_fields)
        filter_types == resolve_field_types(coll, q.filter_keys)
        projection_types == resolve_field_types(coll, q.select_fields)
    IN  IF pk /\ coll.doc_count = 0
        THEN [err |-> "ZeroDivisionError", args |-> <<>>]
        ELSE IF ~pk /\ ~override /\ q.filter_keys = <<>>
        THEN [err |-> "IndexError", args |-> <<>>]
        ELSE IF query_types.err # "none"
        THEN [err |-> query_types.err, args |-> <<>>]
        ELSE IF projection_types.err # "none"
        THEN [err |-> projection_types.err, args |-> <<>>]
        ELSE IF filter_types.err # "none"
        THEN [err |-> filter_types.err, args |-> <<>>]
        ELSE IF q.servers = 0
        THEN [err |-> "ZeroDivisionError", args |-> <<>>]
        ELSE [err |-> "none",
              args |-> [s |-> q.servers_working,
                        result_docs |-> result_docs,
                        filter_types |-> filter_types.types,
                        projection_types |-> projection_types.types,
                        local_docs |-> QFrac(coll.doc_count, q.servers),
                        selectivity |-> sel,
                        doc_size |-> QInt(coll.doc_size),
                        servers_working |-> q.servers_working,
                        servers_total |-> q.servers,
                        indexes_per_shard |-> q.indexes_per_shard]]

\* The keyword arguments filter_without_sharding passes to
\* operator_cost_excel, or the error raised before the call.  q holds the
\* arguments filter_keys, select_fields, distinct_values, servers,
\* selectivity (optional), pk_fields (optional), servers_working,
\* indexes_per_shard.  query_fields is list(set(filter_keys + select_fields)):
\* the names without repetition, in the order the set happens to yield.
filter_without_sharding_call(coll, q, query_fields) ==
    LET pk == detect_primary_key_result(q.filter_keys, q.pk_fields)
        override == q.selectivity # <<>> /\ q.selectivity[1] # QZero
        sel == IF pk THEN QFrac(1, coll.doc_count)
               ELSE IF override THEN q.selectivity[1]
               ELSE default_selectivity(q.filter_keys[1], q.distinct_values)
        result_docs == IF pk THEN QInt(1) ELSE QMul(QInt(coll.doc_count), sel)
        query_types == resolve_field_types(coll, query_fields)
        \* result_types and projection_types are the same resolution
        filter_types == resolve_field_types(coll, q.filter_keys)
        projection_types == resolve_field_types(coll, q.select_fields)
    IN  IF pk /\ coll.doc_count = 0
        THEN [err |-> "ZeroDivisionError", args |-> <<>>]
        ELSE IF ~pk /\ ~override /\ q.filter_keys = <<>>
        THEN [err |-> "IndexError", args |-> <<>>]
        ELSE IF query_types.err # "none"
        THEN [err |-> query_types.err, args |-> <<>>]
        ELSE IF projection_types.err # "none"
        THEN [err |-> projection_types.err, args |-> <<>>]
        ELSE IF filter_types.err # "none"
        THEN [err |-> filter_types.err, args |-> <<>>]
        ELSE IF q.servers = 0
        THEN [err |-> "ZeroDivisionError", args |-> <<>>]
        ELSE [err |-> "none",
              args |-> [s |-> q.servers,
                        result_docs |-> result_docs,
                        filter_types |-> filter_types.types,
                        projection_types |-> projection_types.types,
                        local_docs |-> QFrac(coll.doc_count, q.servers),
                        selectivity |-> sel,
                        doc_size |-> QInt(coll.doc_size),
                        servers_working |-> q.servers_working,
                        servers_total |-> q.servers,
                        indexes_per_shard |-> q.indexes_per_shard]]

\* [err, ret]: the CostOutput, or the error.
filter_without_sharding(coll, q, query_fields) ==
    LET c == filter_without_sharding_call(coll, q, query_fields)
    IN  IF c.err # "none"
        THEN [err |-> c.err, ret |-> 0]
        ELSE [err |-> "none", ret |-> operator_cost_excel(c.args)]

-----------------------------------------------------------------------------
(* Nested-loop joins: app/cost_model/operations.py                         *)
(* j holds the arguments join_key, distinct_values, outer_filter_keys,     *)
(* outer_select_fields, inner_select_fields, servers and, with sharding,   *)
(* outer_sharding_key, inner_sharding_key, outer_selectivity (optional).   *)
(* A list argument left out (None) is the empty list.                      *)

\* resolve_field_types(coll, fields) if fields else []
resolve_if_any(coll, fields) ==
    IF fields = <<>> THEN [err |-> "none", types |-> <<>>]
    ELSE resolve_field_types(coll, fields)

\* The dict a join returns.
JoinOutput(result_docs, outer, inner, iterations) ==
    [result_docs |-> result_docs,
     outer |-> outer,
     inner_per_iteration |-> inner,
     vol_network |-> QAdd(outer.vol_network, QMul(inner.vol_network, iterations)),
     ram_volume |-> QAdd(outer.ram_volume_total,
                         QMul(inner.ram_volume_total, iterations)),
     time_total |-> QAdd(outer.time_total, QMul(inner.time_total, iterations)),
     co2 |-> QAdd(outer.co2, QMul(inner.co2, iterations)),
     price |-> QAdd(outer.price, QMul(inner.price, iterations))]

\* The cardinalities and the two calls of operator_cost_excel that
\* nested_loop_without_sharding makes, or the first error raised.
nested_loop_without_sharding_calls(left, right, j) ==
    LET outer_sel == IF j.outer_filter_keys # <<>>
                     THEN default_selectivity(j.outer_filter_keys[1], j.distinct_values)
                     ELSE QInt(1)
        \* distinct_values.get(join_key): None, like 0, is falsy
        known == j.join_key \in DOMAIN j.distinct_values
                 /\ j.distinct_values[j.join_key] # 0
        inner_sel == IF known THEN QFrac(1, j.distinct_values[j.join_key])
                     ELSE QDec(1, -1)
        outer_result_docs == QMul(QInt(left.doc_count), outer_sel)
        join_result_docs ==
            IF known
            THEN QMul(outer_result_docs,
                      QFrac(right.doc_count, j.distinct_values[j.join_key]))
            ELSE QMul(QMul(QDec(1, -1), outer_result_docs), QInt(right.doc_count))
        outer_filter == resolve_if_any(left, j.outer_filter_keys)
        outer_proj   == resolve_if_any(left, j.outer_select_fields)
        inner_filter == resolve_field_types(right, <<j.join_key>>)
        inner_proj   == resolve_if_any(right, j.inner_select_fields)
        none == [err |-> "none", outer |-> <<>>, inner |-> <<>>,
                 outer_result_docs |-> QZero, join_result_docs |-> QZero]
    IN  IF outer_filter.err # "none" THEN [none EXCEPT !.err = outer_filter.err]
        ELSE IF outer_proj.err # "none" THEN [none EXCEPT !.err = outer_proj.err]
        ELSE IF j.servers = 0 THEN [none EXCEPT !.err = "ZeroDivisionError"]
        ELSE IF inner_filter.err # "none" THEN [none EXCEPT !.err = inner_filter.err]
        ELSE IF inner_proj.err # "none" THEN [none EXCEPT !.err = inner_proj.err]
        ELSE [err |-> "none",
              outer |-> [s |-> j.servers,
                         result_docs |-> outer_result_docs,
                         filter_types |-> outer_filter.types,
                         projection_types |-> outer_proj.types,
                         local_docs |-> QFrac(left.doc_count, j.servers),
                         selectivity |-> outer_sel,
                         doc_size |-> QInt(left.doc_size),
                         servers_working |-> j.servers,
                         servers_total |-> j.servers,
                         indexes_per_shard |-> 1],
              inner |-> [s |-> j.servers,
                         result_docs |-> QInt(1),
                         filter_types |-> inner_filter.types,
                         projection_types |-> inner_proj.types,
                         local_docs |-> QFrac(right.doc_count, j.servers),
                         selectivity |-> inner_sel,
                         doc_size |-> QInt(right.doc_size),
                         servers_working |-> j.servers,
                         servers_total |-> j.servers,
                         indexes_per_shard |-> 1],
              outer_result_docs |-> outer_result_docs,
              join_result_docs |-> join_result_docs]

\* [err, ret]: the dict of the join, or the error.
nested_loop_without_sharding(left, right, j) ==
    Only({IF c.err # "none"
          THEN [err |-> c.err, ret |-> 0]
          ELSE Only({[err |-> "none",
                      ret |-> JoinOutput(c.join_result_docs, outer_cost,
                                         inner_cost, c.join_result_docs)] :
                     outer_cost \in {operator_cost_excel(c.outer)},
                     inner_cost \in {operator_cost_excel(c.inner)}}) :
          c \in {nested_loop_without_sharding_calls(left, right, j)}})

\* outer_sharding_key and outer_filter_keys and outer_sharding_key in
\* outer_filter_keys: the empty string and the empty list are falsy.
outer_match(j) ==
    /\ j.outer_sharding_key # ""
    /\ j.outer_filter_keys # <<>>
    /\ j.outer_sharding_key \in ToSet(j.outer_filter_keys)

inner_match(j) == j.inner_sharding_key # "" /\ j.inner_sharding_key = j.join_key

S_outer(j) == IF outer_match(j) THEN 1 ELSE j.servers

\* Variant: one shard count for both phases, 1 when either side matches.
S_inner_either_side(j) == IF outer_match(j) \/ inner_match(j) THEN 1 ELSE j.servers

S_inner(j) == IF inner_match(j) THEN 1 ELSE j.servers

\* Variant: every lookup returns one document.
avg_matches_per_lookup_one(join_result_docs, outer_result_docs) == QInt(1)

\* join_result_docs / outer_result_docs if outer_result_docs > 0 else 0
avg_matches_per_lookup(join_result_docs, outer_result_docs) ==
    IF outer_result_docs.n > 0
    THEN QDiv(join_result_docs, outer_result_docs) ELSE QZero

\* The cardinalities and the two calls of operator_cost_excel that
\* nested_loop_with_sharding makes, or the first error raised.
nested_loop_with_sharding_calls(left, right, j) ==
    LET outer_sel == IF j.outer_selectivity # <<>> THEN j.outer_selectivity[1]
                     ELSE IF j.outer_filter_keys # <<>>
                     THEN default_selectivity(j.outer_filter_keys[1], j.distinct_values)
                     ELSE QInt(1)
        \* distinct_values.get(join_key, 1)
        ndist == IF j.join_key \in DOMAIN j.distinct_values
                 THEN j.distinct_values[j.join_key] ELSE 1
        inner_sel == IF ndist # 0 THEN QFrac(1, ndist) ELSE QDec(1, -1)
        outer_result_docs == QMul(QInt(left.doc_count), outer_sel)
        join_result_docs ==
            QMul(outer_result_docs, QMul(QInt(right.doc_count), inner_sel))
        outer_filter == resolve_field_types(left, j.outer_filter_keys)
        outer_proj   == resolve_field_types(left, j.outer_select_fields)
        inner_filter == resolve_field_types(right, <<j.join_key>>)
        inner_proj   == resolve_field_types(right, j.inner_select_fields)
        none == [err |-> "none", outer |-> <<>>, inner |-> <<>>,
                 outer_result_docs |-> QZero, join_result_docs |-> QZero]
    IN  IF outer_filter.err # "none" THEN [none EXCEPT !.err = outer_filter.err]
        ELSE IF outer_proj.err # "none" THEN [none EXCEPT !.err = outer_proj.err]
        ELSE IF j.servers = 0 THEN [none EXCEPT !.err = "ZeroDivisionError"]
        ELSE IF inner_filter.err # "none" THEN [none EXCEPT !.err = inner_filter.err]
        ELSE IF inner_proj.err # "none" THEN [none EXCEPT !.err = inner_proj.err]
        ELSE [err |-> "none",
              outer |-> [s |-> S_outer(j),
                         result_docs |-> outer_result_docs,
                         filter_types |-> outer_filter.types,
                         projection_types |-> outer_proj.types,
                         local_docs |-> QFrac(left.doc_count, j.servers),
                         selectivity |-> outer_sel,
                         doc_size |-> QInt(left.doc_size),
                         servers_working |-> S_outer(j),
                         servers_total |-> j.servers,
                         indexes_per_shard |-> 1],
              inner |-> [s |-> S_inner(j),
                         result_docs |-> avg_matches_per_lookup(join_result_docs,
                                                                outer_result_docs),
                         filter_types |-> inner_filter.types,
                         projection_types |-> inner_proj.types,
                         local_docs |-> QFrac(right.doc_count, j.servers),
                         selectivity |-> inner_sel,
                         doc_size |-> QInt(right.doc_size),
                         servers_working |-> S_inner(j),
                         servers_total |-> j.servers,
                         indexes_per_shard |-> 1],
              outer_result_docs |-> outer_result_docs,
              join_result_docs |-> join_result_docs]

\* [err, ret]: the dict of the join, or the error.
nested_loop_with_sharding(left, right, j) ==
    Only({IF c.err # "none"
          THEN [err |-> c.err, ret |-> 0]
          ELSE Only({[err |-> "none",
                      ret |-> JoinOutput(c.join_result_docs, outer_cost,
                                         inner_cost, c.outer_result_docs)] :
                     outer_cost \in {operator_cost_excel(c.outer)},
                     inner_cost \in {operator_cost_excel(c.inner)}}) :
          c \in {nested_loop_with_sharding_calls(left, right, j)}})

-----------------------------------------------------------------------------
(* Aggregation: app/cost_model/operations.py                               *)
(* a holds the arguments match_filter_keys, group_by_key, project_fields,  *)
(* distinct_values, servers, selectivity (optional) and sharding_key ("",  *)
(* like None, is no key).  shuffle_fields is the list                      *)
(* list(set(project_fields + [group_by_key])) in the order the run gives.  *)

\* Shards of the MATCH phase.
S_match(a) ==
    IF /\ a.sharding_key # ""
       /\ a.match_filter_keys # <<>>
       /\ a.sharding_key \in ToSet(a.match_filter_keys)
    THEN 1 ELSE a.servers

is_local_aggregation(a) == a.sharding_key # "" /\ a.group_by_key = a.sharding_key

\* Variant: one result document per distinct group value.
groups_out_distinct(docs_matched, ndist_group) == QInt(ndist_group)

\* min(docs_matched, ndist_group)
groups_out(docs_matched, ndist_group) ==
    IF QLe(docs_matched, QInt(ndist_group)) THEN docs_matched ELSE QInt(ndist_group)

\* The two calls of operator_cost_excel and the shuffle figures of
\* aggregate_with_sharding, or the first error raised.  The module does not
\* import TYPE_SIZES: summing over a non-empty list of shuffle types raises
\* NameError, and an empty list sums to 0.
aggregate_with_sharding_phases(coll, a, shuffle_fields) ==
    LET override == a.selectivity # <<>> /\ a.selectivity[1] # QZero
        sel == IF a.match_filter_keys # <<>>
               THEN (IF override THEN a.selectivity[1]
                     ELSE default_selectivity(a.match_filter_keys[1], a.distinct_values))
               ELSE QInt(1)
        docs_matched == QMul(QInt(coll.doc_count), sel)
        match_filter == resolve_field_types(coll, a.match_filter_keys)
        shuffle_types == resolve_field_types(coll, shuffle_fields)
        size_shuffle_msg == 12
        vol_shuffle == QMul(docs_matched, QInt(size_shuffle_msg))
        shuffle_gb == QDiv(vol_shuffle, QDec(1, 9))
        \* distinct_values.get(group_by_key, 100)
        ndist_group == IF a.group_by_key \in DOMAIN a.distinct_values
                       THEN a.distinct_values[a.group_by_key] ELSE 100
        project == resolve_field_types(coll, a.project_fields)
        none == [err |-> "none", match |-> <<>>, reduce |-> <<>>,
                 docs_matched |-> QZero, vol_shuffle |-> QZero,
                 time_shuffle |-> QZero, co2_shuffle |-> QZero,
                 price_shuffle |-> QZero]
    IN  IF match_filter.err # "none" THEN [none EXCEPT !.err = match_filter.err]
        ELSE IF a.servers = 0 THEN [none EXCEPT !.err = "ZeroDivisionError"]
        ELSE IF ~is_local_aggregation(a) /\ shuffle_types.err # "none"
        THEN [none EXCEPT !.err = shuffle_types.err]
        ELSE IF ~is_local_aggregation(a) /\ shuffle_types.types # <<>>
        THEN [none EXCEPT !.err = "NameError"]
        ELSE IF project.err # "none" THEN [none EXCEPT !.err = project.err]
        ELSE [err |-> "none",
              match |-> [s |-> S_match(a),
                         result_docs |-> docs_matched,
                         filter_types |-> match_filter.types,
                         projection_types |-> <<>>,
                         local_docs |-> QFrac(coll.doc_count, a.servers),
                         selectivity |-> sel,
                         doc_size |-> QInt(coll.doc_size),
                         servers_working |-> S_match(a),
                         servers_total |-> a.servers,
                         indexes_per_shard |-> 1],
              reduce |-> [s |-> 1,
                          result_docs |-> groups_out(docs_matched, ndist_group),
                          filter_types |-> <<>>,
                          projection_types |-> project.types,
                          local_docs |-> QZero,
                          selectivity |-> QZero,
                          doc_size |-> QZero,
                          servers_working |-> 1,
                          servers_total |-> a.servers,
                          indexes_per_shard |-> 1],
              docs_matched |-> docs_matched,
              vol_shuffle |-> IF is_local_aggregation(a) THEN QZero ELSE vol_shuffle,
              time_shuffle |-> IF is_local_aggregation(a) THEN QZero
                               ELSE QDiv(vol_shuffle, BANDWIDTH_Bps),
              co2_shuffle |-> IF is_local_aggregation(a) THEN QZero
                              ELSE QMul(shuffle_gb, CO2_NETWORK_RATE),
              price_shuffle |-> IF is_local_aggregation(a) THEN QZero
                                ELSE QMul(shuffle_gb, PRICE_RATE)]

\* [err, ret]: the dict aggregate_with_sharding returns, or the error.
aggregate_with_sharding(coll, a, shuffle_fields) ==
    Only({IF c.err # "none"
          THEN [err |-> c.err, ret |-> 0]
          ELSE Only({[err |-> "none",
                      ret |-> [result_docs |-> c.reduce.result_docs,
                               vol_network |-> QAdd(QAdd(cost_match.vol_network,
                                                         c.vol_shuffle),
                                                    cost_reduce_out.vol_network),
                               vol_shuffle |-> c.vol_shuffle,
                               ram_volume |-> cost_match.ram_volume_total,
                               time_total |-> QAdd(QAdd(cost_match.time_total,
                                                        c.time_shuffle),
                                                   cost_reduce_out.time_total),
                               co2 |-> QAdd(QAdd(cost_match.co2, c.co2_shuffle),
                                            cost_reduce_out.co2),
                               price |-> QAdd(QAdd(cost_match.price, c.price_shuffle),
                                              cost_reduce_out.price)]] :
                     cost_match \in {operator_cost_excel(c.match)},
                     cost_reduce_out \in {operator_cost_excel(c.reduce)}}) :
          c \in {aggregate_with_sharding_phases(coll, a, shuffle_fields)}})

-----------------------------------------------------------------------------
(* Cost formula, earlier revision: app/operator_costs.py                   *)
(* Idle servers always pay for their index and a gigabyte is 2^30 bytes.   *)

legacy_bytes_to_gb(x) == QDiv(x, QNorm(1, 1, 30, 0))

legacy_operator_cost_excel(a) ==
    LET size_query  == compute_query_size(a.filter_types, a.projection_types)
        size_msg    == size_of_fields(a.projection_types)
        vol_network == QAdd(QInt(a.s * size_query),
                            QMul(a.result_docs, QInt(size_msg)))
        ram_scanned_data == QMul(QMul(a.local_docs, a.selectivity), a.doc_size)
        ram_local   == QAdd(QInt(a.indexes_per_shard * INDEX_SIZE), ram_scanned_data)
        active_ram_cost   == QMul(QInt(a.servers_working), ram_local)
        inactive_count    == Max(a.servers_total - a.servers_working, 0)
        inactive_ram_cost == inactive_count * (a.indexes_per_shard * INDEX_SIZE)
        ram_volume_total  == QAdd(active_ram_cost, QInt(inactive_ram_cost))
        ram_volume   == ram_local
        time_network == QDiv(vol_network, BANDWIDTH_Bps)
        time_ram     == QDiv(ram_local, RAM_Bps)
        time_total   == QAdd(time_network, time_ram)
        ram_gb       == legacy_bytes_to_gb(ram_volume_total)
        net_gb       == legacy_bytes_to_gb(vol_network)
        co2_network  == QMul(net_gb, CO2_NETWORK_RATE)
        co2_ram      == QMul(ram_gb, CO2_RAM_RATE)
        co2          == QAdd(co2_network, co2_ram)
        price        == QMul(net_gb, PRICE_RATE)
    IN  CostOutput(a.result_docs, QMul(a.result_docs, QInt(size_msg)),
                   size_query, size_msg, vol_network, ram_volume,
                   ram_volume_total, time_network, time_ram, time_total,
                   co2, price)

-----------------------------------------------------------------------------
(* Operator layer, earlier revision: app/operators.py                      *)
(* filter_with_sharding passes the caller's servers_working and reports    *)
(* the contacted shards as servers_total.  The collection carries a        *)
(* doc_size (app/models.py does not declare it; the caller sets it).       *)

legacy_filter_with_sharding_call(coll, q) ==
    LET S == IF q.sharding_key \in ToSet(q.filter_keys) THEN 1 ELSE q.servers
        pk == detect_primary_key_result(q.filter_keys, q.pk_fields)
        override == q.selectivity # <<>> /\ q.selectivity[1] # QZero
        sel == IF pk THEN QFrac(1, coll.doc_count)
               ELSE IF override THEN q.selectivity[1]
               ELSE default_selectivity(q.filter_keys[1], q.distinct_values)
        result_docs == IF pk THEN QInt(1) ELSE QMul(QInt(coll.doc_count), sel)
        filter_types == resolve_field_types(coll, q.filter_keys)
        projection_types == resolve_field_types(coll, q.select_fields)
    IN  IF pk /\ coll.doc_count = 0
        THEN [err |-> "ZeroDivisionError", args |-> <<>>]
        ELSE IF ~pk /\ ~override /\ q.filter_keys = <<>>
        THEN [err |-> "IndexError", args |-> <<>>]
        ELSE IF filter_types.err # "none"
        THEN [err |-> filter_types.err, args |-> <<>>]
        ELSE IF projection_types.err # "none"
        THEN [err |-> projection_types.err, args |-> <<>>]
        ELSE IF q.servers = 0
        THEN [err |-> "ZeroDivisionError", args |-> <<>>]
        ELSE [err |-> "none",
              args |-> [s |-> S,
                        result_docs |-> result_docs,
                        filter_types |-> filter_types.types,
                        projection_types |-> projection_types.types,
                        local_docs |-> QFrac(coll.doc_count, q.servers),
                        selectivity |-> sel,
                        doc_size |-> QInt(coll.doc_size),
                        servers_working |-> q.servers_working,
                        servers_total |-> S,
                        indexes_per_shard |-> q.indexes_per_shard]]

legacy_filter_with_sharding(coll, q) ==
    LET c == legacy_filter_with_sharding_call(coll, q)
    IN  IF c.err # "none"
        THEN [err |-> c.err, ret |-> 0]
        ELSE [err |-> "none", ret |-> legacy_operator_cost_excel(c.args)]

\* The cardinalities and the two calls of operator_cost_excel that the
\* earlier nested_loop_with_sharding makes, or the first error raised.  It
\* takes one sharding_key, and both phases contact the same S shards.
legacy_nested_loop_with_sharding_calls(left, right, j) ==
    LET outer_sel == IF j.outer_filter_keys # <<>>
                     THEN default_selectivity(j.outer_filter_keys[1], j.distinct_values)
                     ELSE QInt(1)
        \* distinct_values.get(join_key): None, like 0, is falsy
        known == j.join_key \in DOMAIN j.distinct_values
                 /\ j.distinct_values[j.join_key] # 0
        inner_sel == IF known THEN QFrac(1, j.distinct_values[j.join_key])
                     ELSE QDec(1, -1)
        outer_result_docs == QMul(QInt(left.doc_count), outer_sel)
        join_result_docs ==
            IF known
            THEN QMul(outer_result_docs,
                      QFrac(right.doc_count, j.distinct_values[j.join_key]))
            ELSE QMul(QMul(QDec(1, -1), outer_result_docs), QInt(right.doc_count))
        sharding_matches_outer == /\ j.sharding_key # ""
                                  /\ j.outer_filter_keys # <<>>
                                  /\ j.sharding_key \in ToSet(j.outer_filter_keys)
        sharding_matches_join == j.sharding_key # "" /\ j.sharding_key = j.join_key
        S == IF sharding_matches_outer \/ sharding_matches_join THEN 1 ELSE j.servers
        outer_filter == resolve_if_any(left, j.outer_filter_keys)
        outer_proj   == resolve_if_any(left, j.outer_select_fields)
        inner_filter == resolve_field_types(right, <<j.join_key>>)
        inner_proj   == resolve_if_any(right, j.inner_select_fields)
        none == [err |-> "none", outer |-> <<>>, inner |-> <<>>,
                 outer_result_docs |-> QZero, join_result_docs |-> QZero]
    IN  IF outer_filter.err # "none" THEN [none EXCEPT !.err = outer_filter.err]
        ELSE IF outer_proj.err # "none" THEN [none EXCEPT !.err = outer_proj.err]
        ELSE IF j.servers = 0 THEN [none EXCEPT !.err = "ZeroDivisionError"]
        ELSE IF inner_filter.err # "none" THEN [none EXCEPT !.err = inner_filter.err]
        ELSE IF inner_proj.err # "none" THEN [none EXCEPT !.err = inner_proj.err]
        ELSE [err |-> "none",
              outer |-> [s |-> S,
                         result_docs |-> outer_result_docs,
                         filter_types |-> outer_filter.types,
                         projection_types |-> outer_proj.types,
                         local_docs |-> QFrac(left.doc_count, j.servers),
                         selectivity |-> outer_sel,
                         doc_size |-> QInt(left.doc_size),
                         servers_working |-> S,
                         servers_total |-> S,
                         indexes_per_shard |-> 1],
              inner |-> [s |-> S,
                         result_docs |-> QInt(1),
                         filter_types |-> inner_filter.types,
                         projection_types |-> inner_proj.types,
                         local_docs |-> QFrac(right.doc_count, j.servers),
                         selectivity |-> inner_sel,
                         doc_size |-> QInt(right.doc_size),
                         servers_working |-> S,
                         servers_total |-> S,
                         indexes_per_shard |-> 1],
              outer_result_docs |-> outer_result_docs,
              join_result_docs |-> join_result_docs]

\* [err, ret]: the dict of the earlier join, or the error.  Every total is
\* outer + inner * join_result_docs.
legacy_nested_loop_with_sharding(left, right, j) ==
    Only({IF c.err # "none"
          THEN [err |-> c.err, ret |-> 0]
          ELSE Only({[err |-> "none",
                      ret |-> JoinOutput(c.join_result_docs, outer_cost,
                                         inner_cost, c.join_result_docs)] :
                     outer_cost \in {legacy_operator_cost_excel(c.outer)},
                     inner_cost \in {legacy_operator_cost_excel(c.inner)}}) :
          c \in {legacy_nested_loop_with_sharding_calls(left, right, j)}})

-----------------------------------------------------------------------------
(* Schemas the parser can build: app/schema_parser.py                      *)

\* Property names, in declaration order; child i of any parent is named
\* FieldNames[i], so siblings are unique and names repeat across branches.
FieldNames == <<"IDP", "name", "brand", "price", "tags", "dimensions">>

\* Leaf types a schema may declare; "boolean" has no entry in TYPE_SIZES.
SchemaTypes == {"integer", "number", "string", "longstring", "date", "boolean"}

\* Array arities (avg_items or an array hint).
AvgItemsSet == {0, 1, 3}

RECURSIVE FieldsOfSize(_, _), ForestOfSize(_, _)
\* Every Field named `name` whose tree has exactly n nodes.
FieldsOfSize(n, name) ==
    IF n = 0 THEN {}
    ELSE (IF n = 1 THEN {Field(name, t, <<>>, 1) : t \in SchemaTypes} ELSE {})
         \cup {Field(name, "object", f, 1) : f \in ForestOfSize(n - 1, 1)}
         \cup (IF n = 1
               THEN {Field(name, "array", <<>>, k) : k \in AvgItemsSet}
               ELSE {Field(name, "array", <<item>>, k) :
                        item \in FieldsOfSize(n - 1, name \o "_item"),
                        k \in AvgItemsSet})

\* Every list of sibling Fields with exactly n nodes in all, the first of
\* them named FieldNames[i].
ForestOfSize(n, i) ==
    IF n = 0 THEN {<<>>}
    ELSE UNION {{<<t>> \o f : t \in FieldsOfSize(k, FieldNames[i]),
                              f \in ForestOfSize(n - k, i + 1)} : k \in 1..n}

Schemas(n) == UNION {ForestOfSize(k, 1) : k \in 0..n}

\* Every Field of a forest, at any depth.
RECURSIVE AllFields(_)
AllFields(fields) ==
    UNION {{fields[i]} \cup AllFields(fields[i].subfields) : i \in DOMAIN fields}

-----------------------------------------------------------------------------
(* Specification SpecSize: one parsed collection, and calls of the size    *)
(* model on it and on its fields.                                          *)

\* The caller takes the returned value (the scripts print it) and goes on
\* to its next call.
Report ==
    /\ result.op # "none"
    /\ result' = NoCall
    /\ UNCHANGED collections

InitSize ==
    /\ collections \in
          {("Product" :> Collection("Product", f, 0, 0)) : f \in Schemas(MaxNodes)}
    /\ result = NoCall

CallValueSize ==
    /\ result.op = "none"
    /\ \E c \in DOMAIN collections : \E f \in AllFields(collections[c].fields) :
           /\ result' = Call("value_size", f, value_size(f))
           /\ UNCHANGED collections

CallKeyCount ==
    /\ result.op = "none"
    /\ \E c \in DOMAIN collections : \E f \in AllFields(collections[c].fields) :
           /\ result' = Call("key_count", f, key_count(f))
           /\ UNCHANGED collections

\* Variant: doc_size writes its result into the collection.
CallDocSize_memoizing ==
    /\ result.op = "none"
    /\ \E c \in DOMAIN collections :
           /\ result' = Call("doc_size", c, doc_size(collections[c]))
           /\ collections' = [collections EXCEPT ![c].doc_size = doc_size(collections[c])]

CallDocSize ==
    /\ result.op = "none"
    /\ \E c \in DOMAIN collections :
           /\ result' = Call("doc_size", c, doc_size(collections[c]))
           /\ UNCHANGED collections

CallLegacyValueSize ==
    /\ result.op = "none"
    /\ \E c \in DOMAIN collections : \E f \in AllFields(collections[c].fields) :
           /\ result' = IF legacy_raises(f)
                        THEN Raise("legacy_value_size", f, "IndexError")
                        ELSE Call("legacy_value_size", f, legacy_value_size(f))
           /\ UNCHANGED collections

CallLegacyKeyCount ==
    /\ result.op = "none"
    /\ \E c \in DOMAIN collections : \E f \in AllFields(collections[c].fields) :
           /\ result' = IF legacy_raises(f)
                        THEN Raise("legacy_key_count", f, "IndexError")
                        ELSE Call("legacy_key_count", f, legacy_key_count(f))
           /\ UNCHANGED collections

CallLegacyDocSize ==
    /\ result.op = "none"
    /\ \E c \in DOMAIN collections :
           /\ result' = IF \E i \in DOMAIN collections[c].fields :
                              legacy_raises(collections[c].fields[i])
                        THEN Raise("legacy_doc_size", c, "IndexError")
                        ELSE Call("legacy_doc_size", c, legacy_doc_size(collections[c]))
           /\ UNCHANGED collections

NextSize ==
    \/ CallValueSize
    \/ CallKeyCount
    \/ CallDocSize
    \/ CallLegacyValueSize
    \/ CallLegacyKeyCount
    \/ CallLegacyDocSize
    \/ Report

SpecSize == InitSize /\ [][NextSize]_vars

-----------------------------------------------------------------------------
(* Properties of the size model.                                           *)

\* Every reordering of a list.
Reorderings(xs) ==
    {[i \in DOMAIN xs |-> xs[p[i]]] :
        p \in {q \in [DOMAIN xs -> DOMAIN xs] : \A i, j \in DOMAIN xs : q[i] = q[j] => i = j}}

IsPrimitive(f, t) == f.field_type = t /\ f.subfields = <<>>

\* C1: doc_size(collection) is the sum of value_size over the root fields
\* plus 12 times the sum of key_count over the root fields, where an
\* object's value size is the sum of its children's and its key count is 1
\* plus the sum of its children's; permuting the root fields or an object's
\* children changes nothing.  {integer, string, string} gives 204 and a lone
\* object of two numbers gives 52.
C1_DocSizeFormula ==
    /\ result.op = "doc_size" =>
          LET fields == collections[result.args].fields IN
          /\ result.err = "none"
          /\ result.ret = SumOver([i \in DOMAIN fields |-> value_size(fields[i])])
                          + 12 * SumOver([i \in DOMAIN fields |-> key_count(fields[i])])
          /\ \A p \in Reorderings(fields) :
                doc_size([collections[result.args] EXCEPT !.fields = p]) = result.ret
          /\ (/\ Len(fields) = 3
              /\ IsPrimitive(fields[1], "integer")
              /\ IsPrimitive(fields[2], "string")
              /\ IsPrimitive(fields[3], "string")) => result.ret = 204
          /\ (/\ Len(fields) = 1
              /\ fields[1].field_type = "object"
              /\ Len(fields[1].subfields) = 2
              /\ IsPrimitive(fields[1].subfields[1], "number")
              /\ IsPrimitive(fields[1].subfields[2], "number")) => result.ret = 52
    /\ (result.op = "value_size" /\ result.args.field_type = "object") =>
          LET sub == result.args.subfields IN
          /\ result.ret = SumOver([i \in DOMAIN sub |-> value_size(sub[i])])
          /\ \A p \in Reorderings(sub) :
                value_size([result.args EXCEPT !.subfields = p]) = result.ret
    /\ (result.op = "key_count" /\ result.args.field_type = "object") =>
          LET sub == result.args.subfields IN
          /\ result.ret = 1 + SumOver([i \in DOMAIN sub |-> key_count(sub[i])])
          /\ \A p \in Reorderings(sub) :
                key_count([result.args EXCEPT !.subfields = p]) = result.ret

\* doc_size has returned 52 for a collection whose only root field is an
\* object of two numbers.
C1_Witness ==
    /\ result.op = "doc_size"
    /\ result.ret = 52
    /\ LET fields == collections[result.args].fields IN
          /\ Len(fields) = 1
          /\ fields[1].field_type = "object"
          /\ Len(fields[1].subfields) = 2
          /\ IsPrimitive(fields[1].subfields[1], "number")

\* C2: for an array field, value_size is avg_items times the item child's
\* value size (0 without an item child), and key_count is 1 plus the item
\* child's key count whatever avg_items is: the keys of the array and of its
\* item structure are counted once, never multiplied by the arity.  Stated
\* of value_size and key_count and of the earlier key_count, whenever the
\* call returns.
C2_ArrayKeysOnce ==
    (/\ result.op \in {"value_size", "key_count", "legacy_key_count"}
     /\ result.err = "none"
     /\ result.args.field_type = "array") =>
        LET arr == result.args IN
        /\ result.op = "value_size" =>
              result.ret = IF arr.subfields = <<>> THEN 0
                           ELSE arr.avg_items * value_size(arr.subfields[1])
        /\ result.op \in {"key_count", "legacy_key_count"} =>
              result.ret = IF arr.subfields = <<>> THEN 1
                           ELSE 1 + key_count(arr.subfields[1])
        /\ result.op = "key_count" =>
              \A k \in AvgItemsSet :
                  key_count([arr EXCEPT !.avg_items = k]) = result.ret
        /\ result.op = "legacy_key_count" =>
              \A k \in AvgItemsSet :
                  legacy_key_count([arr EXCEPT !.avg_items = k]) = result.ret

\* The same statement restricted to app/core/size_calc.py, which meets it.
C2_CoreArrayKeysOnce ==
    (result.op \in {"value_size", "key_count"}) => C2_ArrayKeysOnce

-----------------------------------------------------------------------------
(* Specification SpecDb: a parsed database of several collections with     *)
(* their document counts, and calls of the size model on it.               *)

CollNames == <<"Product", "Stock", "OrderLine", "Client">>

\* The schemas of the database: the three worked examples and the empty one.
SampleSchemas ==
    { <<Field("IDP", "integer", <<>>, 1), Field("name", "string", <<>>, 1),
        Field("brand", "string", <<>>, 1)>>,
      <<Field("dimensions", "object",
              <<Field("weight", "number", <<>>, 1),
                Field("height", "number", <<>>, 1)>>, 1)>>,
      <<Field("tags", "array", <<Field("tags_item", "string", <<>>, 1)>>, 3)>>,
      <<>> }

InitDb ==
    /\ \E k \in 1..MaxCollections :
          LET names == {CollNames[i] : i \in 1..k} IN
          \E g \in [names -> SampleSchemas \X (0..MaxDocCount)] :
              collections = [n \in names |-> Collection(n, g[n][1], g[n][2], 0)]
    /\ result = NoCall

CallCollectionSize ==
    /\ result.op = "none"
    /\ \E c \in DOMAIN collections :
           /\ result' = Call("collection_size", c, collection_size(collections[c]))
           /\ UNCHANGED collections

CallDbSize ==
    /\ result.op = "none"
    /\ result' = Call("db_size", DOMAIN collections, db_size(collections))
    /\ UNCHANGED collections

NextDb ==
    \/ CallDocSize
    \/ CallCollectionSize
    \/ CallDbSize
    \/ Report

SpecDb == InitDb /\ [][NextDb]_vars

\* C3: collection_size is doc_size(collection) times doc_count, and db_size
\* is the sum of collection_size over the collections: a collection with
\* doc_count 0 contributes 0, and each collection accounts for exactly its
\* own size in the total.
C3_SizesAdditive ==
    /\ result.op = "collection_size" =>
          LET coll == collections[result.args] IN
          /\ result.ret = doc_size(coll) * coll.doc_count
          /\ coll.doc_count = 0 => result.ret = 0
    /\ result.op = "db_size" =>
          /\ result.ret = SumOver([n \in DOMAIN collections |->
                                      doc_size(collections[n]) * collections[n].doc_count])
          /\ \A c \in DOMAIN collections :
                LET rest == [n \in DOMAIN collections \ {c} |-> collections[n]] IN
                /\ result.ret = db_size(rest) + collection_size(collections[c])
                /\ collections[c].doc_count = 0 => result.ret = db_size(rest)

\* db_size has returned the total of a database of two collections, both
\* with documents and with different document sizes.
C3_Witness ==
    /\ result.op = "db_size"
    /\ Cardinality(DOMAIN collections) = 2
    /\ \A c \in DOMAIN collections : collections[c].doc_count > 0
    /\ doc_size(collections["Product"]) # doc_size(collections["Stock"])
    /\ result.ret = collection_size(collections["Product"])
                    + collection_size(collections["Stock"])

-----------------------------------------------------------------------------
(* Specification SpecCost: direct calls of the cost formula.               *)

\* Primitive types of the query fields.
CostTypes == {"integer", "string"}

\* Lists of at most n types.
TypeLists(n) == UNION {[1..k -> CostTypes] : k \in 0..n}

\* Values of the float arguments.
ResultDocsSet == {QInt(0), QInt(1), QFrac(5, 2)}
LocalDocsSet == {QInt(1000), QFrac(10000, 3)}
SelectivitySet == {QDec(1, -6), QDec(1, -1)}
DocSizeSet == {QInt(0), QInt(200)}
IndexCounts == {0, 1, 2}

\* Calls that vary the query shape and leave servers_working, servers_total
\* and indexes_per_shard at their defaults of 1.
QueryShapeArgs ==
    [s : 1..MaxServers,
     result_docs : ResultDocsSet,
     filter_types : TypeLists(MaxTypes),
     projection_types : TypeLists(MaxTypes),
     local_docs : {QInt(1000)},
     selectivity : {QDec(1, -1)},
     doc_size : {QInt(200)},
     servers_working : {1},
     servers_total : {1},
     indexes_per_shard : {1}]

\* Calls that vary the topology and the scanned data for one query shape.
TopologyArgs ==
    [s : 1..MaxServers,
     result_docs : {QInt(1)},
     filter_types : {<<"integer">>},
     projection_types : {<<"string">>},
     local_docs : LocalDocsSet,
     selectivity : SelectivitySet,
     doc_size : DocSizeSet,
     servers_working : 0..MaxServers,
     servers_total : 1..MaxServers,
     indexes_per_shard : IndexCounts]

CostArgs == QueryShapeArgs \cup TopologyArgs

InitCost ==
    /\ collections = <<>>
    /\ result = NoCall

CallCostFormula ==
    /\ result.op = "none"
    /\ \E a \in CostArgs :
           /\ result' = Call("operator_cost_excel", a, operator_cost_excel(a))
           /\ UNCHANGED collections

CallLegacyCostFormula ==
    /\ result.op = "none"
    /\ \E a \in CostArgs :
           /\ result' = Call("legacy_operator_cost_excel", a, legacy_operator_cost_excel(a))
           /\ UNCHANGED collections

NextCost ==
    \/ CallCostFormula
    \/ CallLegacyCostFormula
    \/ Report

SpecCost == InitCost /\ [][NextCost]_vars
-----------------------------------------------------------------------------
(* Specification SpecFilter: a sharded Stock collection, and calls of the  *)
(* cost formula, of detect_primary_key_result and of filter_with_sharding  *)
(* on it.                                                                  *)

StockFields ==
    <<Field("IDP", "integer", <<>>, 1), Field("IDW", "integer", <<>>, 1),
      Field("quantity", "integer", <<>>, 1), Field("location", "string", <<>>, 1)>>

\* Names used as filter, primary and sharding keys.
KeyNames == {"IDP", "IDW", "quantity"}

\* Lists of at most n keys, repetitions included.
KeyLists(n) == UNION {[1..k -> KeyNames] : k \in 0..n}

\* Document counts of the collection.
DocCounts == {0, 1000000}

\* Cluster sizes; a cluster of 1000 servers is only queried by point lookup,
\* which keeps every volume within TLC's 32-bit integers.
ServersFor(filter_keys, sharding_key) ==
    {1, 4} \cup (IF sharding_key \in ToSet(filter_keys) THEN {1000} ELSE {})

\* Explicit selectivity overrides: none, 0, 0.000001 and 0.0005.
Overrides == {<<>>, <<QZero>>, <<QDec(1, -6)>>, <<QDec(5, -4)>>}

\* Projections: none, two fields of the collection, and one naming a field
\* ("price") that the collection does not have.
SelectLists == {<<>>, <<"quantity", "location">>, <<"quantity", "price">>}

\* Distinct-value statistics: none, a count for IDP, and a count of 0.
DistinctValues == {<<>>, ("IDP" :> 100000), ("IDP" :> 0)}

FilterArgs ==
    UNION {[filter_keys : {fk},
            select_fields : SelectLists,
            sharding_key : {sk},
            distinct_values : DistinctValues,
            servers : ServersFor(fk, sk),
            selectivity : Overrides,
            pk_fields : {<<>>, <<<<"IDP", "IDW">>>>},
            servers_working : {1},
            indexes_per_shard : {1}] :
           fk \in KeyLists(MaxKeys), sk \in {"IDP", "location"}}

InitFilter ==
    /\ \E n \in DocCounts :
          collections = ("Stock" :> Collection("Stock", StockFields, n, 200))
    /\ result = NoCall

CallDetectPrimaryKey ==
    /\ result.op = "none"
    /\ \E fk \in KeyLists(MaxKeys) : \E pk \in {<<>>} \cup {<<l>> : l \in KeyLists(MaxKeys)} :
           /\ result' = Call("detect_primary_key_result",
                             [filter_keys |-> fk, pk_fields |-> pk],
                             detect_primary_key_result(fk, pk))
           /\ UNCHANGED collections

CallFilterWithSharding ==
    /\ result.op = "none"
    /\ \E c \in DOMAIN collections : \E q \in FilterArgs :
           LET out == filter_with_sharding(collections[c], q) IN
           /\ result' = [op |-> "filter_with_sharding",
                         args |-> [coll |-> c, q |-> q],
                         err |-> out.err, ret |-> out.ret]
           /\ UNCHANGED collections

\* Arguments of filter_without_sharding, which takes no sharding key.
WithoutShardingArgs ==
    [filter_keys : KeyLists(MaxKeys),
     select_fields : SelectLists,
     distinct_values : DistinctValues,
     servers : {1, 4},
     selectivity : Overrides,
     pk_fields : {<<>>, <<<<"IDP", "IDW">>>>},
     servers_working : {1, 2},
     indexes_per_shard : {1}]

\* A list of the elements of a finite set, in some order.
RECURSIVE SetToSeq(_)
SetToSeq(S) ==
    IF S = {} THEN <<>>
    ELSE LET x == CHOOSE y \in S : TRUE IN <<x>> \o SetToSeq(S \ {x})

\* The lists list(set(filter_keys + select_fields)) may be: the order of a
\* set of strings changes from run to run.  The list is only resolved, and
\* the resolver stops at the first name that fails, so every outcome of any
\* order is the outcome of an order that puts one given name first.
QueryFieldLists(q) ==
    LET names == ToSet(q.filter_keys) \cup ToSet(q.select_fields)
    IN  IF names = {} THEN {<<>>}
        ELSE {<<n>> \o SetToSeq(names \ {n}) : n \in names}

CallFilterWithoutSharding ==
    /\ result.op = "none"
    /\ \E c \in DOMAIN collections : \E q \in WithoutShardingArgs :
       \E query_fields \in QueryFieldLists(q) :
           LET out == filter_without_sharding(collections[c], q, query_fields) IN
           /\ result' = [op |-> "filter_without_sharding",
                         args |-> [coll |-> c, q |-> q, query_fields |-> query_fields],
                         err |-> out.err, ret |-> out.ret]
           /\ UNCHANGED collections

CallLegacyFilterWithSharding ==
    /\ result.op = "none"
    /\ \E c \in DOMAIN collections : \E q \in FilterArgs :
           LET out == legacy_filter_with_sharding(collections[c], q) IN
           /\ result' = [op |-> "legacy_filter_with_sharding",
                         args |-> [coll |-> c, q |-> q],
                         err |-> out.err, ret |-> out.ret]
           /\ UNCHANGED collections

NextFilter ==
    \/ CallCostFormula
    \/ CallDetectPrimaryKey
    \/ CallFilterWithSharding
    \/ CallFilterWithoutSharding
    \/ CallLegacyFilterWithSharding
    \/ Report

SpecFilter == InitFilter /\ [][NextFilter]_vars

-----------------------------------------------------------------------------
(* Properties of the cost formula.                                         *)

\* The sum of 12 + the type's size over every position of a list of types.
AttributeBytes(types) == SumOver([i \in DOMAIN types |-> 12 + TYPE_SIZES[types[i]]])

\* C4: vol_network = S * size_query + result_docs * size_msg, where
\* size_query sums 12 + typeSize(t) over every occurrence of a type in
\* filter_types followed by projection_types (no deduplication) and size_msg
\* sums it over projection_types only; result_size_bytes is result_docs *
\* size_msg.
C4_NetworkVolume ==
    result.op = "operator_cost_excel" =>
        LET a == result.args
            r == result.ret
            size_query == AttributeBytes(a.filter_types \o a.projection_types)
            size_msg   == AttributeBytes(a.projection_types)
        IN  /\ r.size_query = size_query
            /\ r.size_msg = size_msg
            /\ r.vol_network = QAdd(QInt(a.s * size_query),
                                    QMul(a.result_docs, QInt(size_msg)))
            /\ r.result_size_bytes = QMul(a.result_docs, QInt(size_msg))

\* The formula has been called with "string" twice in the filter and again
\* in the projection, on 2 servers for 5/2 documents: 2 * 276 + 230 bytes.
C4_Witness ==
    /\ result.op = "operator_cost_excel"
    /\ result.args.filter_types = <<"string", "string">>
    /\ result.args.projection_types = <<"string">>
    /\ result.args.s = 2
    /\ result.args.result_docs = QFrac(5, 2)
    /\ result.ret.size_query = 276
    /\ result.ret.vol_network = QInt(782)

C7_BroadcastIdleRamUnclamped ==
    (/\ result.op \in {"operator_cost_excel", "legacy_operator_cost_excel"}
     /\ result.args.s = result.args.servers_total) =>
        LET a == result.args
        IN  result.ret.ram_volume_total =
                QAdd(QMul(QInt(a.servers_working), result.ret.ram_volume),
                     QInt((a.servers_total - a.servers_working)
                          * a.indexes_per_shard * 1000000))

\* C7 as amended: whenever S = servers_total, the idle-shard RAM cost is
\* max(servers_total - servers_working, 0) * indexes_per_shard * INDEX_SIZE,
\* so that ram_volume_total = servers_working * ramLocal + that cost; with
\* more working servers than servers the idle cost is 0, not negative.
C7_BroadcastIdleRam ==
    (/\ result.op \in {"operator_cost_excel", "legacy_operator_cost_excel"}
     /\ result.args.s = result.args.servers_total) =>
        LET a == result.args
            idle == IF a.servers_total > a.servers_working
                    THEN a.servers_total - a.servers_working
                    ELSE 0
        IN  result.ret.ram_volume_total =
                QAdd(QMul(QInt(a.servers_working), result.ret.ram_volume),
                     QInt(idle * a.indexes_per_shard * 1000000))

\* A broadcast to 2 servers of which 1 works, with 2 indexes per shard: the
\* idle server is charged 2,000,000 bytes.
C7_Witness ==
    /\ result.op = "operator_cost_excel"
    /\ result.args.s = 2
    /\ result.args.servers_total = 2
    /\ result.args.servers_working = 1
    /\ result.args.indexes_per_shard = 2
    /\ result.ret.ram_volume_total =
          QAdd(result.ret.ram_volume, QInt(2000000))

\* C8: price = (vol_network / 1e9) * 0.011 and co2 = (ram_volume_total /
\* 1e9) * 0.028 + (vol_network / 1e9) * 0.011, a gigabyte being 10^9 bytes;
\* the price is the same whatever the RAM inputs of the call are.
C8_PriceAndCo2 ==
    result.op = "operator_cost_excel" =>
        LET a == result.args
            r == result.ret
        IN  /\ QMul(r.price, QDec(1, 12)) = QMul(r.vol_network, QInt(11))
            /\ QMul(r.co2, QDec(1, 12)) =
                  QAdd(QMul(r.ram_volume_total, QInt(28)),
                       QMul(r.vol_network, QInt(11)))
            /\ \A ld \in LocalDocsSet : \A sel \in SelectivitySet :
               \A w \in 0..MaxServers : \A idx \in IndexCounts :
                  LET other == operator_cost_excel(
                                   [a EXCEPT !.local_docs = ld,
                                             !.selectivity = sel,
                                             !.servers_working = w,
                                             !.indexes_per_shard = idx])
                  IN  other.vol_network = r.vol_network
                      => other.price = r.price

\* The 782-byte call above has been priced: 782 * 0.011 / 1e9, and its 1.02
\* MB of RAM on one server enters the CO2 mass.
C8_Witness ==
    /\ result.op = "operator_cost_excel"
    /\ result.ret.vol_network = QInt(782)
    /\ result.ret.ram_volume_total = QInt(1020000)
    /\ result.ret.price = QDec(8602, -12)
    /\ result.ret.co2 = QDec(28568602, -12)
-----------------------------------------------------------------------------
(* Properties of the operator layer.                                       *)

\* C6: smart routing.  Whenever the cost formula is called with S = 1 and
\* servers_total > 1, the idle shards add no RAM: ram_volume_total =
\* servers_working * ramLocal, whatever servers_working and
\* indexes_per_shard are.  filter_with_sharding with the sharding key among
\* the filter keys on 1,000,000 documents of 200 bytes, 1000 servers and
\* selectivity 0.000001 contacts S = 1 shard, returns result_docs = 1 and
\* ramLocal = 1,000,000.2 bytes, and ram_volume_total = ramLocal.
C6_SmartRouting ==
    /\ (/\ result.op = "operator_cost_excel"
        /\ result.args.s = 1
        /\ result.args.servers_total > 1) =>
           result.ret.ram_volume_total =
               QMul(QInt(result.args.servers_working), result.ret.ram_volume)
    /\ (/\ result.op = "filter_with_sharding"
        /\ result.err = "none"
        /\ result.args.q.sharding_key \in ToSet(result.args.q.filter_keys)
        /\ result.args.q.servers > 1) =>
           LET coll == collections[result.args.coll]
               q == result.args.q
               call == filter_with_sharding_call(coll, q)
           IN  /\ call.args.s = 1
               /\ result.ret.ram_volume_total = result.ret.ram_volume
               /\ (/\ coll.doc_count = 1000000
                   /\ coll.doc_size = 200
                   /\ q.servers = 1000
                   /\ q.selectivity = <<QDec(1, -6)>>) =>
                      /\ result.ret.result_docs = QInt(1)
                      /\ result.ret.ram_volume = QDec(10000002, -1)
                      /\ result.ret.ram_volume_total = QDec(10000002, -1)

\* The point lookup of the scenario has returned: 1000 servers, the
\* sharding key IDP in the filter, selectivity 0.000001, no primary key.
C6_Witness ==
    /\ result.op = "filter_with_sharding"
    /\ result.err = "none"
    /\ collections[result.args.coll].doc_count = 1000000
    /\ result.args.q.servers = 1000
    /\ result.args.q.sharding_key = "IDP"
    /\ result.args.q.filter_keys = <<"IDP">>
    /\ result.args.q.selectivity = <<QDec(1, -6)>>
    /\ result.args.q.pk_fields = <<>>
    /\ result.ret.ram_volume_total = QDec(10000002, -1)

\* The set of a list of primary-key fields, None being the empty set.
PkSet(pk_fields) == IF pk_fields = <<>> THEN {} ELSE ToSet(pk_fields[1])

\* C10 as claimed: for every filterKeys and every pkFields, an empty or
\* absent pkFields included, detect_primary_key_result is true if and only
\* if pkFields is a subset of filterKeys.
C10_PkIffSubset ==
    result.op = "detect_primary_key_result" =>
        (result.ret <=>
            PkSet(result.args.pk_fields) \subseteq ToSet(result.args.filter_keys))

\* C10 as amended: detect_primary_key_result is true if and only if pkFields
\* is present, not empty, and a subset of filterKeys; for an empty or absent
\* pkFields it is false.
C10_PkIffNonEmptySubset ==
    result.op = "detect_primary_key_result" =>
        (result.ret <=>
            /\ PkSet(result.args.pk_fields) # {}
            /\ \A k \in PkSet(result.args.pk_fields) :
                  \E i \in DOMAIN result.args.filter_keys :
                      result.args.filter_keys[i] = k)

\* The two-field primary key has been found in a filter that lists its
\* fields in the other order.
C10_Witness ==
    /\ result.op = "detect_primary_key_result"
    /\ result.args.pk_fields = <<<<"IDP", "IDW">>>>
    /\ result.args.filter_keys = <<"IDW", "IDP">>
    /\ result.ret = TRUE

-----------------------------------------------------------------------------
(* Properties of the filter operators.                                     *)

\* The call of the cost formula that the recorded filter operator made.
CallMade ==
    LET coll == collections[result.args.coll]
        q == result.args.q
    IN  IF result.op = "filter_with_sharding"
        THEN filter_with_sharding_call(coll, q)
        ELSE IF result.op = "filter_without_sharding"
        THEN filter_without_sharding_call(coll, q, result.args.query_fields)
        ELSE legacy_filter_with_sharding_call(coll, q)

\* The filter keys of the recorded call include the declared primary key.
PkCovered ==
    /\ PkSet(result.args.q.pk_fields) # {}
    /\ PkSet(result.args.q.pk_fields) \subseteq ToSet(result.args.q.filter_keys)

\* C11: in filter_without_sharding and filter_with_sharding, whenever the
\* filter keys are a superset of the declared primary key, the result has
\* result_docs = 1 and the cost formula is called with selectivity =
\* 1/docCount, whatever the explicit override and the distinct-value
\* statistics are.
C11_PkShortcut ==
    (/\ result.op \in {"filter_with_sharding", "filter_without_sharding"}
     /\ result.err = "none"
     /\ PkCovered) =>
        /\ result.ret.result_docs = QInt(1)
        /\ CallMade.args.result_docs = QInt(1)
        /\ CallMade.args.selectivity =
               QFrac(1, collections[result.args.coll].doc_count)

\* A filter on the whole primary key has returned although the caller gave
\* the override 0.0005 and the statistics hold a count for the first key.
C11_Witness ==
    /\ result.op = "filter_with_sharding"
    /\ result.err = "none"
    /\ result.args.q.pk_fields = <<<<"IDP", "IDW">>>>
    /\ result.args.q.filter_keys = <<"IDP", "IDW">>
    /\ result.args.q.selectivity = <<QDec(5, -4)>>
    /\ result.args.q.distinct_values = ("IDP" :> 100000)
    /\ collections[result.args.coll].doc_count = 1000000
    /\ result.ret.result_docs = QInt(1)

\* The selectivity the policy gives when the shortcut does not apply: the
\* override if one is supplied, else 1/distinct of the first filter key if
\* that count is known, else 0.1.
PolicySelectivity(q) ==
    IF q.selectivity # <<>> THEN q.selectivity[1]
    ELSE IF q.filter_keys[1] \in DOMAIN q.distinct_values
            /\ q.distinct_values[q.filter_keys[1]] > 0
    THEN QFrac(1, q.distinct_values[q.filter_keys[1]])
    ELSE QDec(1, -1)

\* C12: in the filter operators, when the primary-key shortcut does not
\* apply, the selectivity used is the explicit override whenever one is
\* supplied (for every supplied value, 0 included), otherwise
\* 1/distinctValues[firstFilterKey] when known, otherwise 0.1; and
\* result_docs = docCount * selectivity.
C12_SelectivityPolicy ==
    (/\ result.op \in {"filter_with_sharding", "filter_without_sharding"}
     /\ result.err = "none"
     /\ ~PkCovered) =>
        /\ CallMade.args.selectivity = PolicySelectivity(result.args.q)
        /\ result.ret.result_docs =
               QMul(QInt(collections[result.args.coll].doc_count),
                    PolicySelectivity(result.args.q))

\* The same policy for every override other than 0, which the code takes as
\* no override.
C12_NonZeroOverride ==
    (/\ result.op \in {"filter_with_sharding", "filter_without_sharding"}
     /\ result.err = "none"
     /\ ~PkCovered
     /\ result.args.q.selectivity # <<QZero>>) =>
        /\ CallMade.args.selectivity = PolicySelectivity(result.args.q)
        /\ result.ret.result_docs =
               QMul(QInt(collections[result.args.coll].doc_count),
                    PolicySelectivity(result.args.q))

\* C13: when the collection's docCount is 0 or the distinct-value count of
\* the first filter key is 0, the operator takes the fallback path and
\* returns a finite result; no division by zero is reached.
C13_ZeroGuarded ==
    (/\ result.op \in {"filter_with_sharding", "filter_without_sharding"}
     /\ \/ collections[result.args.coll].doc_count = 0
        \/ /\ result.args.q.filter_keys # <<>>
           /\ result.args.q.filter_keys[1] \in DOMAIN result.args.q.distinct_values
           /\ result.args.q.distinct_values[result.args.q.filter_keys[1]] = 0) =>
        result.err # "ZeroDivisionError"

\* A distinct-value count of 0 alone is guarded: the filter falls back to
\* the selectivity 0.1.
C13_ZeroDistinctGuarded ==
    (/\ result.op \in {"filter_with_sharding", "filter_without_sharding"}
     /\ result.err = "none"
     /\ ~PkCovered
     /\ result.args.q.selectivity \in {<<>>, <<QZero>>}
     /\ result.args.q.filter_keys[1] \in DOMAIN result.args.q.distinct_values
     /\ result.args.q.distinct_values[result.args.q.filter_keys[1]] = 0) =>
        CallMade.args.selectivity = QDec(1, -1)

\* C14: filter_without_sharding always contacts every server: it calls the
\* cost formula with S = servers, servers_total = servers and local_docs =
\* docCount / servers, whatever the filter keys are, so its network volume
\* is servers * size_query + result_docs * size_msg.
C14_WithoutShardingBroadcast ==
    (/\ result.op = "filter_without_sharding"
     /\ result.err = "none") =>
        LET q == result.args.q
            coll == collections[result.args.coll]
        IN  /\ CallMade.args.s = q.servers
            /\ CallMade.args.servers_total = q.servers
            /\ CallMade.args.local_docs = QFrac(coll.doc_count, q.servers)
            /\ result.ret.vol_network =
                   QAdd(QInt(q.servers * result.ret.size_query),
                        QMul(result.ret.result_docs, QInt(result.ret.size_msg)))

\* filter_without_sharding has returned for 4 servers of which 1 works, with
\* a filter on one key and a projection.
C14_Witness ==
    /\ result.op = "filter_without_sharding"
    /\ result.err = "none"
    /\ result.args.q.servers = 4
    /\ result.args.q.servers_working = 1
    /\ result.args.q.filter_keys = <<"quantity">>
    /\ result.args.q.select_fields = <<"quantity", "location">>
    /\ result.ret.size_query = 132
    /\ collections[result.args.coll].doc_count = 1000000

\* C15: filter_with_sharding contacts S = 1 shard when the sharding key is
\* among the filter keys and S = servers otherwise; in both cases the cost
\* formula is called with servers_total = servers (the whole cluster) and
\* local_docs = docCount / servers.  Both revisions of the operator.
C15_ShardRouting ==
    (/\ result.op \in {"filter_with_sharding", "legacy_filter_with_sharding"}
     /\ result.err = "none") =>
        LET q == result.args.q
            coll == collections[result.args.coll]
        IN  /\ CallMade.args.s =
                   (IF q.sharding_key \in ToSet(q.filter_keys) THEN 1 ELSE q.servers)
            /\ CallMade.args.servers_total = q.servers
            /\ CallMade.args.local_docs = QFrac(coll.doc_count, q.servers)

\* The same for app/cost_model/operations.py alone.
C15_CurrentShardRouting ==
    (/\ result.op = "filter_with_sharding"
     /\ result.err = "none") =>
        LET q == result.args.q
            coll == collections[result.args.coll]
        IN  /\ CallMade.args.s =
                   (IF q.sharding_key \in ToSet(q.filter_keys) THEN 1 ELSE q.servers)
            /\ CallMade.args.servers_total = q.servers
            /\ CallMade.args.local_docs = QFrac(coll.doc_count, q.servers)

-----------------------------------------------------------------------------
(* Specification SpecResolve: one collection whose schema repeats names    *)
(* across branches, and calls of the resolver and of a filter on it.       *)

\* Property names; siblings have different names, branches may repeat them.
ResolverNames == {"IDP", "name"}

\* Leaf types; "boolean" has no entry in TYPE_SIZES.
ResolverTypes == {"integer", "string", "boolean"}

\* Array arities.
ResolverArities == {1, 3}

RECURSIVE NamedFields(_, _), NamedForest(_, _)
\* Every Field named `name` whose tree has exactly n nodes; an array's item
\* is named after the array, as the parser names it.
NamedFields(n, name) ==
    IF n = 0 THEN {}
    ELSE (IF n = 1 THEN {Field(name, t, <<>>, 1) : t \in ResolverTypes} ELSE {})
         \cup {Field(name, "object", f, 1) : f \in NamedForest(n - 1, ResolverNames)}
         \cup (IF n = 1
               THEN {Field(name, "array", <<>>, 1)}
               ELSE {Field(name, "array", <<item>>, k) :
                        item \in NamedFields(n - 1, name \o "_item"),
                        k \in ResolverArities})

\* Every list of sibling Fields with exactly n nodes in all and names from
\* avail, each used once.
NamedForest(n, avail) ==
    IF n = 0 THEN {<<>>}
    ELSE UNION {{<<t>> \o f : t \in NamedFields(k, x),
                              f \in NamedForest(n - k, avail \ {x})} :
                <<x, k>> \in avail \X (1..n)}

ResolverSchemas(n) == UNION {NamedForest(k, ResolverNames) : k \in 0..n}

\* Names looked up: the property names, an item name, and "price", which no
\* schema has.
FindNames == ResolverNames \cup {"IDP_item", "price"}

\* Lists of at most n queried names.
NameLists(n) == UNION {[1..k -> ResolverNames \cup {"price"}] : k \in 0..n}

\* Filters on the collection: one filter key, at most one projected field.
SchemaFilterArgs ==
    [filter_keys : {<<"IDP">>, <<"price">>},
     select_fields : {<<>>, <<"name">>, <<"price">>},
     sharding_key : {"IDP"},
     distinct_values : {<<>>},
     servers : {1},
     selectivity : {<<>>},
     pk_fields : {<<>>},
     servers_working : {1},
     indexes_per_shard : {1}]

InitResolve ==
    /\ \E fields \in ResolverSchemas(MaxNodes) :
          collections = ("Product" :> Collection("Product", fields, 1000, 200))
    /\ result = NoCall

CallFindField ==
    /\ result.op = "none"
    /\ \E c \in DOMAIN collections : \E name \in FindNames :
           /\ result' = Call("find_field", [coll |-> c, name |-> name],
                             find_field(collections[c].fields, name))
           /\ UNCHANGED collections

CallCollectPrimitiveTypes ==
    /\ result.op = "none"
    /\ \E c \in DOMAIN collections : \E field \in AllFields(collections[c].fields) :
           LET out == collect_primitive_types(field) IN
           /\ result' = [op |-> "collect_primitive_types",
                         args |-> [coll |-> c, field |-> field],
                         err |-> out.err, ret |-> out.types]
           /\ UNCHANGED collections

CallResolveFieldTypes ==
    /\ result.op = "none"
    /\ \E c \in DOMAIN collections : \E names \in NameLists(MaxKeys) :
           LET out == resolve_field_types(collections[c], names) IN
           /\ result' = [op |-> "resolve_field_types",
                         args |-> [coll |-> c, fields |-> names],
                         err |-> out.err, ret |-> out.types]
           /\ UNCHANGED collections

CallFilterOnSchema ==
    /\ result.op = "none"
    /\ \E c \in DOMAIN collections : \E q \in SchemaFilterArgs :
           LET out == filter_with_sharding(collections[c], q) IN
           /\ result' = [op |-> "filter_with_sharding",
                         args |-> [coll |-> c, q |-> q],
                         err |-> out.err, ret |-> out.ret]
           /\ UNCHANGED collections

NextResolve ==
    \/ CallFindField
    \/ CallCollectPrimitiveTypes
    \/ CallResolveFieldTypes
    \/ CallFilterOnSchema
    \/ Report

SpecResolve == InitResolve /\ [][NextResolve]_vars

-----------------------------------------------------------------------------
(* Properties of the resolver.                                             *)

\* The fields of a forest in depth-first pre-order: a field, then what is
\* under it (an object's children, an array's item), then its later siblings.
RECURSIVE PreOrder(_)
PreOrder(fields) ==
    IF fields = <<>> THEN <<>>
    ELSE <<Head(fields)>>
         \o (IF Head(fields).field_type \in {"object", "array"}
             THEN PreOrder(Head(fields).subfields) ELSE <<>>)
         \o PreOrder(Tail(fields))

\* The first field of that name in pre-order: <<>> or <<field>>.
FirstNamed(fields, name) ==
    LET order == PreOrder(fields)
        hits == {i \in DOMAIN order : order[i].name = name}
    IN  IF hits = {} THEN <<>>
        ELSE <<order[CHOOSE i \in hits : \A j \in hits : i <= j]>>

\* C16: field lookup by name is a depth-first pre-order search returning the
\* first match: a field is tested before its descendants, and what is under
\* it before its later siblings.  So with the same name under an earlier
\* root field and on a later root field, the nested one is resolved.
C16_DepthFirstPreOrder ==
    result.op = "find_field" =>
        result.ret = FirstNamed(collections[result.args.coll].fields,
                                result.args.name)

\* The name looked up is a child of the first root field and also the next
\* root field, and the lookup returned the child.
C16_Witness ==
    /\ result.op = "find_field"
    /\ LET fields == collections[result.args.coll].fields IN
       /\ Len(fields) = 2
       /\ fields[1].field_type = "object"
       /\ Len(fields[1].subfields) = 1
       /\ fields[1].subfields[1].name = result.args.name
       /\ fields[2].name = result.args.name
       /\ fields[2] # fields[1].subfields[1]
       /\ result.ret = <<fields[1].subfields[1]>>

\* The expansion of a field: a primitive is its own type, an object the
\* expansions of its children in declaration order, an array the expansion
\* of its item child, once.
RECURSIVE Expansion(_)
Expansion(field) ==
    IF field.field_type \in {"integer", "number", "string", "longstring", "date"}
    THEN <<field.field_type>>
    ELSE IF field.field_type = "object"
    THEN LET Cat[i \in 0..Len(field.subfields)] ==
                 IF i = 0 THEN <<>>
                 ELSE Cat[i - 1] \o Expansion(field.subfields[i])
         IN  Cat[Len(field.subfields)]
    ELSE IF field.field_type = "array" /\ field.subfields # <<>>
    THEN Expansion(field.subfields[1])
    ELSE <<>>

\* The same forest with every avg_items set to k.
RECURSIVE WithArity(_, _)
WithArity(fields, k) ==
    [i \in DOMAIN fields |->
        Field(fields[i].name, fields[i].field_type,
              WithArity(fields[i].subfields, k), k)]

\* C17: resolve_field_types returns, for the names in order, the
\* concatenation of each name's expansion; an array expands to the expansion
\* of its item child exactly once, so the output does not depend on any
\* avg_items.
C17_ResolveExpansion ==
    (/\ result.op = "resolve_field_types"
     /\ result.err = "none") =>
        LET coll == collections[result.args.coll]
            names == result.args.fields
            Cat[i \in 0..Len(names)] ==
                IF i = 0 THEN <<>>
                ELSE Cat[i - 1] \o Expansion(FirstNamed(coll.fields, names[i])[1])
            flat == Collection(coll.name, WithArity(coll.fields, 1),
                               coll.doc_count, coll.doc_size)
        IN  /\ result.ret = Cat[Len(names)]
            /\ resolve_field_types(flat, names).types = result.ret

\* Two names have been resolved, the first an array of 3 items on average,
\* to one type each.
C17_Witness ==
    /\ result.op = "resolve_field_types"
    /\ result.err = "none"
    /\ Len(result.args.fields) = 2
    /\ LET fields == collections[result.args.coll].fields IN
       /\ fields[1].name = result.args.fields[1]
       /\ fields[1].field_type = "array"
       /\ fields[1].avg_items = 3
    /\ Len(result.ret) = 2

\* No field of the collection's schema tree has that name.
Absent(coll, name) == \A f \in AllFields(coll.fields) : f.name # name

\* What expansion visits from a field: the field, an object's children and
\* what they reach, an array's item child and what it reaches.
RECURSIVE Reached(_)
Reached(field) ==
    {field} \cup
    (IF field.field_type = "object"
     THEN UNION {Reached(field.subfields[i]) : i \in DOMAIN field.subfields}
     ELSE IF field.field_type = "array" /\ field.subfields # <<>>
     THEN Reached(field.subfields[1])
     ELSE {})

\* A kind that is neither a recognized primitive nor object nor array.
UnknownKind(f) ==
    f.field_type \notin {"integer", "number", "string", "longstring", "date",
                         "object", "array"}

\* A field expansion cannot go through: an unknown kind, or an array that
\* declares no item child.
Unsupported(f) ==
    \/ UnknownKind(f)
    \/ (f.field_type = "array" /\ f.subfields = <<>>)

\* The error of the first name of the list that fails, "none" if none does:
\* FieldNotFound for an absent name, UnsupportedField for a name whose
\* expansion reaches an unsupported field.
FirstFailure(coll, names) ==
    LET Fails(i) ==
            \/ Absent(coll, names[i])
            \/ \E f \in Reached(FirstNamed(coll.fields, names[i])[1]) : Unsupported(f)
        failing == {i \in DOMAIN names : Fails(i)}
    IN  IF failing = {} THEN "none"
        ELSE LET k == CHOOSE i \in failing : \A j \in failing : i <= j
             IN  IF Absent(coll, names[k]) THEN "FieldNotFound"
                 ELSE "UnsupportedField"

C19_UnsupportedIffUnknownKind ==
    /\ result.op = "collect_primitive_types" =>
           (result.err = "UnsupportedField" <=>
                \E f \in Reached(result.args.field) : UnknownKind(f))
    /\ (/\ result.op = "resolve_field_types"
        /\ \A f \in AllFields(collections[result.args.coll].fields) : ~UnknownKind(f)) =>
           result.err # "UnsupportedField"

\* C19 as amended: the resolver fails with UnsupportedField exactly when
\* expansion reaches a field that is neither a recognized primitive nor an
\* object nor an array with an item child (an unknown kind, or an array
\* declaring no item); on a tree without such a field it does not fail with
\* UnsupportedField.
C19_UnsupportedIffNoExpansion ==
    /\ result.op = "collect_primitive_types" =>
           (result.err = "UnsupportedField" <=>
                \E f \in Reached(result.args.field) : Unsupported(f))
    /\ result.op = "resolve_field_types" =>
           /\ (result.err = "UnsupportedField" <=>
                   FirstFailure(collections[result.args.coll], result.args.fields)
                       = "UnsupportedField")
           /\ (\A f \in AllFields(collections[result.args.coll].fields) : ~Unsupported(f)) =>
                  result.err # "UnsupportedField"

\* Expansion of an object reached its boolean child and failed.
C19_Witness ==
    /\ result.op = "collect_primitive_types"
    /\ result.args.field.field_type = "object"
    /\ Len(result.args.field.subfields) = 2
    /\ result.args.field.subfields[2].field_type = "boolean"
    /\ result.err = "UnsupportedField"

-----------------------------------------------------------------------------
(* Specification SpecJoin: the collections Stock, Product and Warehouse,   *)
(* calls of the nested-loop joins of Stock (outer) with Product (inner),   *)
(* and calls of the aggregation on Stock and on Warehouse.                 *)

ProductFields ==
    <<Field("IDP", "integer", <<>>, 1), Field("name", "string", <<>>, 1),
      Field("brand", "string", <<>>, 1), Field("price", "number", <<>>, 1)>>

\* Document counts of the outer and of the inner collection.
OuterDocCounts == {0, 4}
InnerDocCounts == {0, 2}

\* Join keys: IDP is in both collections, IDW only in Stock.
JoinKeys == {"IDP", "IDW"}

\* Statistics: none, a count for the join key, a count of 0, and a count
\* for a filter key only.
JoinDistinctValues == {<<>>, ("IDP" :> 2), ("IDP" :> 0), ("quantity" :> 2)}

\* Cluster sizes of the joins.
JoinServers == {1, 2}

JoinArgs ==
    [join_key : JoinKeys,
     distinct_values : JoinDistinctValues,
     outer_filter_keys : {<<>>, <<"IDP">>, <<"quantity">>},
     outer_select_fields : {<<>>, <<"IDP", "quantity">>},
     inner_select_fields : {<<>>, <<"name", "price">>},
     servers : JoinServers]

ShardedJoinArgs ==
    [join_key : JoinKeys,
     distinct_values : JoinDistinctValues,
     outer_filter_keys : {<<>>, <<"IDP">>, <<"quantity">>},
     outer_select_fields : {<<>>, <<"IDP", "quantity">>},
     inner_select_fields : {<<>>, <<"name", "price">>},
     servers : JoinServers,
     outer_sharding_key : {"IDP", ""},
     inner_sharding_key : {"IDP", "brand"},
     outer_selectivity : {<<>>, <<QZero>>, <<QDec(5, -1)>>}]

\* Arguments of the earlier nested_loop_with_sharding: one sharding key.
LegacyJoinArgs ==
    [join_key : JoinKeys,
     distinct_values : JoinDistinctValues,
     outer_filter_keys : {<<>>, <<"IDP">>, <<"quantity">>},
     outer_select_fields : {<<>>, <<"IDP", "quantity">>},
     inner_select_fields : {<<>>, <<"name", "price">>},
     servers : JoinServers,
     sharding_key : {"IDP", ""}]

\* A collection with an object that declares no property, as the parser
\* builds it from "properties": {}.
WarehouseFields ==
    <<Field("IDW", "integer", <<>>, 1), Field("address", "object", <<>>, 1)>>

\* Arguments of aggregate_with_sharding.
AggregateArgs ==
    [match_filter_keys : {<<>>, <<"IDW">>, <<"quantity", "IDP">>},
     group_by_key : {"IDP", "IDW", "address"},
     project_fields : {<<>>, <<"quantity">>, <<"IDW", "quantity">>},
     distinct_values : {<<>>, ("IDW" :> 2), ("IDW" :> 200)},
     servers : JoinServers,
     selectivity : {<<>>, <<QZero>>, <<QDec(5, -1)>>},
     sharding_key : {"", "IDP", "IDW"}]

\* The lists list(set(project_fields + [group_by_key])) may be, one for
\* each name that can come first; a co-located aggregation builds none.
ShuffleFieldLists(a) ==
    IF is_local_aggregation(a) THEN {<<>>}
    ELSE LET names == ToSet(a.project_fields) \cup {a.group_by_key}
         IN  {<<n>> \o SetToSeq(names \ {n}) : n \in names}

InitJoin ==
    /\ \E n \in OuterDocCounts : \E m \in InnerDocCounts :
          collections = ("Stock" :> Collection("Stock", StockFields, n, 200)
                         @@ "Product" :> Collection("Product", ProductFields, m, 100)
                         @@ "Warehouse" :> Collection("Warehouse", WarehouseFields,
                                                      1000, 60))
    /\ result = NoCall

CallAggregateWithSharding ==
    /\ result.op = "none"
    /\ \E c \in {"Stock", "Warehouse"} : \E a \in AggregateArgs :
       \E shuffle_fields \in ShuffleFieldLists(a) :
       \E out \in {aggregate_with_sharding(collections[c], a, shuffle_fields)} :
           /\ result' = [op |-> "aggregate_with_sharding",
                         args |-> [coll |-> c, a |-> a,
                                   shuffle_fields |-> shuffle_fields],
                         err |-> out.err, ret |-> out.ret]
           /\ UNCHANGED collections

CallNestedLoopWithoutSharding ==
    /\ result.op = "none"
    /\ \E j \in JoinArgs :
       \E out \in {nested_loop_without_sharding(collections["Stock"],
                                                collections["Product"], j)} :
           /\ result' = [op |-> "nested_loop_without_sharding",
                         args |-> [left |-> "Stock", right |-> "Product", j |-> j],
                         err |-> out.err, ret |-> out.ret]
           /\ UNCHANGED collections

CallNestedLoopWithSharding ==
    /\ result.op = "none"
    /\ \E j \in ShardedJoinArgs :
       \E out \in {nested_loop_with_sharding(collections["Stock"],
                                             collections["Product"], j)} :
           /\ result' = [op |-> "nested_loop_with_sharding",
                         args |-> [left |-> "Stock", right |-> "Product", j |-> j],
                         err |-> out.err, ret |-> out.ret]
           /\ UNCHANGED collections

CallLegacyNestedLoopWithSharding ==
    /\ result.op = "none"
    /\ \E j \in LegacyJoinArgs :
       \E out \in {legacy_nested_loop_with_sharding(collections["Stock"],
                                                    collections["Product"], j)} :
           /\ result' = [op |-> "legacy_nested_loop_with_sharding",
                         args |-> [left |-> "Stock", right |-> "Product", j |-> j],
                         err |-> out.err, ret |-> out.ret]
           /\ UNCHANGED collections

NextJoin ==
    \/ CallNestedLoopWithoutSharding
    \/ CallNestedLoopWithSharding
    \/ CallLegacyNestedLoopWithSharding
    \/ CallAggregateWithSharding
    \/ Report

SpecJoin == InitJoin /\ [][NextJoin]_vars

-----------------------------------------------------------------------------
(* Properties of the joins.                                                *)

\* C20: in both nested-loop join variants the reported join cardinality is
\* outerResultDocs * (rightDocCount / distinctJoinValues) when the join
\* key's distinct-value count is known, and 0.1 * outerResultDocs *
\* rightDocCount when the join key has no entry in the statistics.
C20_JoinCardinality ==
    (/\ result.op \in {"nested_loop_without_sharding", "nested_loop_with_sharding"}
     /\ result.err = "none") =>
        LET j == result.args.j
            left == collections[result.args.left]
            right == collections[result.args.right]
            outer == result.ret.outer.result_docs
        IN  /\ (j.join_key \in DOMAIN j.distinct_values
                /\ j.distinct_values[j.join_key] > 0) =>
                   result.ret.result_docs =
                       QMul(outer, QFrac(right.doc_count, j.distinct_values[j.join_key]))
            /\ j.join_key \notin DOMAIN j.distinct_values =>
                   result.ret.result_docs =
                       QMul(QMul(QDec(1, -1), outer), QInt(right.doc_count))

\* The same for nested_loop_without_sharding alone.
C20_UnshardedJoinCardinality ==
    (/\ result.op = "nested_loop_without_sharding"
     /\ result.err = "none") =>
        LET j == result.args.j
            right == collections[result.args.right]
            outer == result.ret.outer.result_docs
        IN  /\ (j.join_key \in DOMAIN j.distinct_values
                /\ j.distinct_values[j.join_key] > 0) =>
                   result.ret.result_docs =
                       QMul(outer, QFrac(right.doc_count, j.distinct_values[j.join_key]))
            /\ j.join_key \notin DOMAIN j.distinct_values =>
                   result.ret.result_docs =
                       QMul(QMul(QDec(1, -1), outer), QInt(right.doc_count))

\* With a known count both variants agree with the claim.
C20_KnownCountCardinality ==
    (/\ result.op \in {"nested_loop_without_sharding", "nested_loop_with_sharding"}
     /\ result.err = "none"
     /\ result.args.j.join_key \in DOMAIN result.args.j.distinct_values
     /\ result.args.j.distinct_values[result.args.j.join_key] > 0) =>
        result.ret.result_docs =
            QMul(result.ret.outer.result_docs,
                 QFrac(collections[result.args.right].doc_count,
                       result.args.j.distinct_values[result.args.j.join_key]))

\* The five totals of the recorded join are outer + inner * iterations.
TotalsWith(iterations) ==
    LET outer == result.ret.outer
        inner == result.ret.inner_per_iteration
    IN  /\ result.ret.vol_network =
               QAdd(outer.vol_network, QMul(inner.vol_network, iterations))
        /\ result.ret.ram_volume =
               QAdd(outer.ram_volume_total, QMul(inner.ram_volume_total, iterations))
        /\ result.ret.time_total =
               QAdd(outer.time_total, QMul(inner.time_total, iterations))
        /\ result.ret.co2 = QAdd(outer.co2, QMul(inner.co2, iterations))
        /\ result.ret.price = QAdd(outer.price, QMul(inner.price, iterations))

\* C21: each nested-loop join total (network volume, RAM volume, time, CO2,
\* price) equals outerCost + innerCostPerProbe * iterations, where
\* iterations is the outer result cardinality in nested_loop_with_sharding
\* and the join output cardinality in nested_loop_without_sharding; one
\* iterations value serves all five totals of a call.  Both revisions of
\* nested_loop_with_sharding.
C21_JoinTotals ==
    (/\ result.op \in {"nested_loop_without_sharding", "nested_loop_with_sharding",
                       "legacy_nested_loop_with_sharding"}
     /\ result.err = "none") =>
        TotalsWith(IF result.op = "nested_loop_without_sharding"
                   THEN result.ret.result_docs
                   ELSE result.ret.outer.result_docs)

\* The same for app/cost_model/operations.py alone.
C21_CurrentJoinTotals ==
    (/\ result.op \in {"nested_loop_without_sharding", "nested_loop_with_sharding"}
     /\ result.err = "none") =>
        TotalsWith(IF result.op = "nested_loop_without_sharding"
                   THEN result.ret.result_docs
                   ELSE result.ret.outer.result_docs)

\* The two calls of the cost formula that the recorded join made.
JoinCallsMade ==
    LET left == collections[result.args.left]
        right == collections[result.args.right]
        j == result.args.j
    IN  IF result.op = "nested_loop_without_sharding"
        THEN nested_loop_without_sharding_calls(left, right, j)
        ELSE IF result.op = "nested_loop_with_sharding"
        THEN nested_loop_with_sharding_calls(left, right, j)
        ELSE legacy_nested_loop_with_sharding_calls(left, right, j)

\* The inner call of the recorded join is on the right collection, filters
\* on the join key alone, projects the inner-select fields, asks for
\* result_docs documents over S_inner shards, and its network volume is
\* S_inner * size_query + result_docs * size_msg.
InnerProbe(shards, result_docs) ==
    LET right == collections[result.args.right]
        j == result.args.j
        inner == JoinCallsMade.inner
        cost == result.ret.inner_per_iteration
    IN  /\ inner.filter_types = resolve_field_types(right, <<j.join_key>>).types
        /\ inner.projection_types =
               resolve_field_types(right, j.inner_select_fields).types
        /\ inner.doc_size = QInt(right.doc_size)
        /\ inner.local_docs = QFrac(right.doc_count, j.servers)
        /\ inner.s = shards
        /\ inner.result_docs = result_docs
        /\ cost.result_docs = result_docs
        /\ cost.size_query = compute_query_size(inner.filter_types,
                                                inner.projection_types)
        /\ cost.size_msg = size_of_fields(inner.projection_types)
        /\ cost.vol_network = QAdd(QInt(shards * cost.size_query),
                                   QMul(result_docs, QInt(cost.size_msg)))

\* C22: in both nested-loop join variants the inner per-probe cost is a
\* cost-formula call on the right collection whose only filter is the join
\* key, whose projection is the inner-select fields and whose result_docs
\* is 1, so that the inner per-probe network volume is
\* S_inner * size_query + 1 * size_msg.
C22_InnerProbeOne ==
    (/\ result.op \in {"nested_loop_without_sharding", "nested_loop_with_sharding"}
     /\ result.err = "none") =>
        InnerProbe(IF result.op = "nested_loop_with_sharding"
                      /\ result.args.j.inner_sharding_key = result.args.j.join_key
                   THEN 1 ELSE result.args.j.servers,
                   QInt(1))

\* C22, amended: result_docs is 1 in nested_loop_without_sharding, and in
\* nested_loop_with_sharding it is the average number of matches of one
\* lookup, join_result_docs / outer_result_docs, or 0 when the outer phase
\* returns no document; the inner per-probe network volume is
\* S_inner * size_query + result_docs * size_msg.
C22_InnerProbe ==
    (/\ result.op \in {"nested_loop_without_sharding", "nested_loop_with_sharding"}
     /\ result.err = "none") =>
        InnerProbe(IF result.op = "nested_loop_with_sharding"
                      /\ result.args.j.inner_sharding_key = result.args.j.join_key
                   THEN 1 ELSE result.args.j.servers,
                   IF result.op = "nested_loop_without_sharding" THEN QInt(1)
                   ELSE IF result.ret.outer.result_docs.n > 0
                   THEN QDiv(result.ret.result_docs, result.ret.outer.result_docs)
                   ELSE QZero)

\* A sharded join of 4 outer with 2 inner documents, without statistics,
\* has returned: each lookup matches 2 documents, and the inner call on 2
\* shards moves 2 * 132 + 2 * 112 bytes.
C22_Witness ==
    /\ result.op = "nested_loop_with_sharding"
    /\ result.err = "none"
    /\ result.args.j.join_key = "IDP"
    /\ result.args.j.inner_select_fields = <<"name", "price">>
    /\ result.args.j.inner_sharding_key = "brand"
    /\ result.args.j.servers = 2
    /\ result.ret.outer.result_docs = QInt(4)
    /\ result.ret.result_docs = QInt(8)
    /\ result.ret.inner_per_iteration.result_docs = QInt(2)
    /\ result.ret.inner_per_iteration.vol_network = QInt(488)

-----------------------------------------------------------------------------
(* Properties of the aggregation and of shard routing.                     *)

\* The phases of the recorded call of aggregate_with_sharding.
AggregateCallsMade ==
    aggregate_with_sharding_phases(collections[result.args.coll], result.args.a,
                                   result.args.shuffle_fields)

\* C23: the shard count collapses per phase, independently.  In
\* nested_loop_with_sharding the outer call contacts 1 shard if the outer
\* sharding key is among the outer filter keys and servers otherwise, and
\* the inner call contacts 1 shard if the inner sharding key equals the
\* join key and servers otherwise, neither depending on the other side.  In
\* aggregate_with_sharding the MATCH phase contacts 1 shard if the sharding
\* key is among the match filter keys, and servers otherwise.
C23_ShardCollapse ==
    /\ (result.op = "nested_loop_with_sharding" /\ result.err = "none") =>
           LET j == result.args.j
               shards_outer == IF j.outer_sharding_key \in ToSet(j.outer_filter_keys)
                               THEN 1 ELSE j.servers
               shards_inner == IF j.inner_sharding_key = j.join_key
                               THEN 1 ELSE j.servers
               outer == result.ret.outer
               inner == result.ret.inner_per_iteration
           IN  /\ JoinCallsMade.outer.s = shards_outer
               /\ JoinCallsMade.inner.s = shards_inner
               /\ outer.vol_network =
                      QAdd(QInt(shards_outer * outer.size_query),
                           QMul(outer.result_docs, QInt(outer.size_msg)))
               /\ inner.vol_network =
                      QAdd(QInt(shards_inner * inner.size_query),
                           QMul(inner.result_docs, QInt(inner.size_msg)))
    /\ (result.op = "aggregate_with_sharding" /\ result.err = "none") =>
           LET a == result.args.a
           IN  AggregateCallsMade.match.s =
                   (IF a.sharding_key \in ToSet(a.match_filter_keys)
                    THEN 1 ELSE a.servers)

\* A sharded join on 2 servers has returned whose outer filter uses the
\* outer sharding key while the inner sharding key is not the join key:
\* the outer phase contacts 1 shard and the inner phase 2.
C23_Witness ==
    /\ result.op = "nested_loop_with_sharding"
    /\ result.err = "none"
    /\ result.args.j.servers = 2
    /\ result.args.j.outer_sharding_key = "IDP"
    /\ result.args.j.outer_filter_keys = <<"IDP">>
    /\ result.args.j.inner_sharding_key = "brand"
    /\ result.args.j.join_key = "IDP"
    /\ JoinCallsMade.outer.s = 1
    /\ JoinCallsMade.inner.s = 2
    /\ result.ret.inner_per_iteration.vol_network =
           QAdd(QInt(2 * result.ret.inner_per_iteration.size_query),
                QMul(result.ret.inner_per_iteration.result_docs,
                     QInt(result.ret.inner_per_iteration.size_msg)))

\* The arguments of the recorded aggregation name fields that all resolve.
AggregateResolvable ==
    LET coll == collections[result.args.coll]
        a == result.args.a
    IN  /\ resolve_field_types(coll, a.match_filter_keys).err = "none"
        /\ resolve_field_types(coll, a.project_fields).err = "none"
        /\ resolve_field_types(coll, <<a.group_by_key>>).err = "none"

\* Bytes of one shuffled record: the group key and the projected fields,
\* each once, after 12 bytes.
PerRecordMessageSize ==
    LET coll == collections[result.args.coll]
        a == result.args.a
        names == ToSet(a.project_fields) \cup {a.group_by_key}
        types == resolve_field_types(coll, SetToSeq(names)).types
    IN  12 + SumSeq([i \in DOMAIN types |-> TYPE_SIZES[types[i]]])

\* The shuffle of the recorded, completed aggregation costs nothing.
ShuffleFree ==
    /\ result.ret.vol_shuffle = QZero
    /\ AggregateCallsMade.time_shuffle = QZero
    /\ AggregateCallsMade.co2_shuffle = QZero
    /\ AggregateCallsMade.price_shuffle = QZero

\* The shuffle of the recorded, completed aggregation moves one record per
\* matched document and is charged as network traffic.
ShuffleCharged ==
    LET vol == QMul(AggregateCallsMade.docs_matched, QInt(PerRecordMessageSize))
    IN  /\ result.ret.vol_shuffle = vol
        /\ AggregateCallsMade.time_shuffle = QDiv(vol, BANDWIDTH_Bps)
        /\ AggregateCallsMade.co2_shuffle = QMul(bytes_to_gb(vol), CO2_NETWORK_RATE)
        /\ AggregateCallsMade.price_shuffle = QMul(bytes_to_gb(vol), PRICE_RATE)

\* C24: in aggregate_with_sharding the SHUFFLE phase costs zero (volume,
\* time, CO2 and price) when the group-by key equals the sharding key;
\* otherwise the call completes and reports vol_shuffle = matchedDocs *
\* perRecordMessageSize, the message carrying the group key and the
\* projected fields, each once, with time vol_shuffle / BANDWIDTH_Bps, CO2
\* gb(vol_shuffle) * CO2_NETWORK_RATE and price gb(vol_shuffle) * PRICE_RATE.
C24_Shuffle ==
    (result.op = "aggregate_with_sharding" /\ AggregateResolvable) =>
        IF result.args.a.group_by_key = result.args.a.sharding_key
        THEN result.err = "none" /\ ShuffleFree
        ELSE result.err = "none" /\ ShuffleCharged

\* What holds of the code: a co-located aggregation completes with a free
\* shuffle, and a shuffled aggregation that completes is charged as above;
\* it completes only if the shuffled fields hold no primitive value.
C24_ShuffleWhenComplete ==
    (result.op = "aggregate_with_sharding" /\ AggregateResolvable) =>
        IF result.args.a.group_by_key = result.args.a.sharding_key
        THEN result.err = "none" /\ ShuffleFree
        ELSE /\ result.err \in {"none", "NameError"}
             /\ result.err = "none" <=> PerRecordMessageSize = 12
             /\ result.err = "none" => ShuffleCharged

\* distinct_values.get(group_by_key, 100) of the recorded aggregation.
DistinctGroupValues ==
    IF result.args.a.group_by_key \in DOMAIN result.args.a.distinct_values
    THEN result.args.a.distinct_values[result.args.a.group_by_key]
    ELSE 100

\* C25: in aggregate_with_sharding the REDUCE phase is a cost-formula call
\* on a single coordinator (S = 1, servers_working = 1) and the reported
\* result_docs is min(matchedDocs, distinctGroupValues), where
\* distinctGroupValues is 100 when the group-by key has no distinct-value
\* statistic; hence result_docs never exceeds matchedDocs.
C25_Reduce ==
    (result.op = "aggregate_with_sharding" /\ result.err = "none") =>
        LET coll == collections[result.args.coll]
            match == AggregateCallsMade.match
            reduce == AggregateCallsMade.reduce
            matched == QMul(QInt(coll.doc_count), match.selectivity)
        IN  /\ reduce.s = 1
            /\ reduce.servers_working = 1
            /\ match.result_docs = matched
            /\ reduce.result_docs = result.ret.result_docs
            /\ result.ret.result_docs =
                   (IF QLe(matched, QInt(DistinctGroupValues))
                    THEN matched ELSE QInt(DistinctGroupValues))
            /\ QLe(result.ret.result_docs, matched)

\* An aggregation of the 1000 documents of Warehouse, without filter and
\* without statistics, has returned 100 groups.
C25_Witness ==
    /\ result.op = "aggregate_with_sharding"
    /\ result.err = "none"
    /\ result.args.coll = "Warehouse"
    /\ result.args.a.match_filter_keys = <<>>
    /\ result.args.a.distinct_values = <<>>
    /\ AggregateCallsMade.match.result_docs = QInt(1000)
    /\ AggregateCallsMade.reduce.s = 1
    /\ result.ret.result_docs = QInt(100)

\* The totals of the recorded, completed aggregation: network volume,
\* time, CO2 and price are summed over MATCH, SHUFFLE and REDUCE, and the
\* RAM volume is that of MATCH alone.
PhaseTotals ==
    LET c == AggregateCallsMade
        cost_match == operator_cost_excel(c.match)
        cost_reduce_out == operator_cost_excel(c.reduce)
    IN  /\ result.ret.vol_network =
               QAdd(QAdd(cost_match.vol_network, result.ret.vol_shuffle),
                    cost_reduce_out.vol_network)
        /\ result.ret.time_total =
               QAdd(QAdd(cost_match.time_total, c.time_shuffle),
                    cost_reduce_out.time_total)
        /\ result.ret.co2 =
               QAdd(QAdd(cost_match.co2, c.co2_shuffle), cost_reduce_out.co2)
        /\ result.ret.price =
               QAdd(QAdd(cost_match.price, c.price_shuffle), cost_reduce_out.price)
        /\ result.ret.ram_volume = cost_match.ram_volume_total

\* C26: the totals of aggregate_with_sharding are the sums over the three
\* phases (MATCH + SHUFFLE + REDUCE) for network volume, time, CO2 and
\* price, while the reported RAM volume is the MATCH phase's
\* ram_volume_total alone; this holds in the co-located and in the
\* shuffled case.
C26_Totals ==
    (result.op = "aggregate_with_sharding" /\ AggregateResolvable) =>
        result.err = "none" /\ PhaseTotals

\* What holds of the code: every aggregation that completes reports these
\* totals.
C26_TotalsWhenComplete ==
    (result.op = "aggregate_with_sharding" /\ result.err = "none") => PhaseTotals

-----------------------------------------------------------------------------
(* Specification SpecOperators: on the collections of SpecJoin, calls of   *)
(* the size model, of the resolver and of every operator of               *)
(* app/cost_model/operations.py.                                           *)

\* Arguments of the two filters on small collections.
SmallFilterArgs ==
    [filter_keys : {<<>>, <<"IDW">>, <<"IDP", "IDW">>},
     select_fields : {<<>>, <<"quantity">>},
     sharding_key : {"IDW", "location"},
     distinct_values : {<<>>, ("IDW" :> 2)},
     servers : JoinServers,
     selectivity : {<<>>, <<QZero>>, <<QDec(5, -1)>>},
     pk_fields : {<<>>, <<<<"IDP", "IDW">>>>},
     servers_working : {1},
     indexes_per_shard : {1}]

CallSmallFilterWithSharding ==
    /\ result.op = "none"
    /\ \E c \in DOMAIN collections : \E q \in SmallFilterArgs :
       \E out \in {filter_with_sharding(collections[c], q)} :
           /\ result' = [op |-> "filter_with_sharding",
                         args |-> [coll |-> c, q |-> q],
                         err |-> out.err, ret |-> out.ret]
           /\ UNCHANGED collections

CallSmallFilterWithoutSharding ==
    /\ result.op = "none"
    /\ \E c \in DOMAIN collections : \E q \in SmallFilterArgs :
       \E query_fields \in QueryFieldLists(q) :
       \E out \in {filter_without_sharding(collections[c], q, query_fields)} :
           /\ result' = [op |-> "filter_without_sharding",
                         args |-> [coll |-> c, q |-> q, query_fields |-> query_fields],
                         err |-> out.err, ret |-> out.ret]
           /\ UNCHANGED collections

NextOperators ==
    \/ CallValueSize
    \/ CallKeyCount
    \/ CallDocSize
    \/ CallCollectionSize
    \/ CallFindField
    \/ CallResolveFieldTypes
    \/ CallSmallFilterWithSharding
    \/ CallSmallFilterWithoutSharding
    \/ CallNestedLoopWithoutSharding
    \/ CallNestedLoopWithSharding
    \/ CallAggregateWithSharding
    \/ Report

SpecOperators == InitJoin /\ [][NextOperators]_vars

-----------------------------------------------------------------------------
(* Properties of all operators.                                            *)

NoKeyNoShortcut ==
    /\ result.op \in {"filter_with_sharding", "filter_without_sharding"}
    /\ result.args.q.filter_keys = <<>>
    /\ ~detect_primary_key_result(result.args.q.filter_keys, result.args.q.pk_fields)
    /\ result.args.q.selectivity = <<>>

\* The recorded join was given no outer filter key and no override, and
\* its other arguments name fields that resolve.
JoinFullScan ==
    LET j == result.args.j
        left == collections[result.args.left]
        right == collections[result.args.right]
    IN  /\ result.op \in {"nested_loop_without_sharding", "nested_loop_with_sharding"}
        /\ j.outer_filter_keys = <<>>
        /\ result.op = "nested_loop_with_sharding" => j.outer_selectivity = <<>>
        /\ resolve_field_types(left, j.outer_select_fields).err = "none"
        /\ resolve_field_types(right, <<j.join_key>>).err = "none"
        /\ resolve_field_types(right, j.inner_select_fields).err = "none"

\* The recorded aggregation was given no match filter key, and its other
\* arguments name fields that resolve.
AggregateFullScan ==
    /\ result.op = "aggregate_with_sharding"
    /\ result.args.a.match_filter_keys = <<>>
    /\ AggregateResolvable

\* C30: filter_without_sharding and filter_with_sharding called with an
\* empty filter-key list, no primary-key match and no selectivity override
\* fail with an error and return no CostOutput, whereas the joins and the
\* aggregation given an empty filter-key list use selectivity 1.0 (a full
\* scan) and return a result.
C30_EmptyFilterKeys ==
    /\ NoKeyNoShortcut => result.err # "none"
    /\ JoinFullScan =>
           /\ result.err = "none"
           /\ JoinCallsMade.outer.selectivity = QInt(1)
           /\ result.ret.outer.result_docs =
                  QInt(collections[result.args.left].doc_count)
    /\ AggregateFullScan =>
           /\ result.err = "none"
           /\ AggregateCallsMade.match.selectivity = QInt(1)
           /\ AggregateCallsMade.match.result_docs =
                  QInt(collections[result.args.coll].doc_count)

\* What holds of the code: the filters fail with IndexError, the joins scan
\* the whole outer collection and return, and an aggregation that returns
\* has scanned the whole collection.
C30_EmptyFilterKeysWhenComplete ==
    /\ NoKeyNoShortcut => result.err = "IndexError"
    /\ JoinFullScan =>
           /\ result.err = "none"
           /\ JoinCallsMade.outer.selectivity = QInt(1)
           /\ result.ret.outer.result_docs =
                  QInt(collections[result.args.left].doc_count)
    /\ (AggregateFullScan /\ result.err = "none") =>
           /\ AggregateCallsMade.match.selectivity = QInt(1)
           /\ AggregateCallsMade.match.result_docs =
                  QInt(collections[result.args.coll].doc_count)

-----------------------------------------------------------------------------
(* Properties relating two calls of filter_with_sharding (SpecFilter).     *)

\* Values of servers_working a caller may pass.
WorkingCounts == 0..MaxServers

\* The recorded call of a sharded filter, repeated with servers_working = w.
WithServersWorking(w) ==
    LET coll == collections[result.args.coll]
        q == [result.args.q EXCEPT !.servers_working = w]
    IN  IF result.op = "filter_with_sharding"
        THEN filter_with_sharding(coll, q)
        ELSE legacy_filter_with_sharding(coll, q)

\* C29: the servers_working argument of filter_with_sharding has no effect:
\* two calls that differ only in servers_working return CostOutput records
\* equal in every field, the number of working servers passed to the cost
\* formula being always the contacted-shard count S.  Both revisions of
\* the operator.
C29_ServersWorkingNoEffect ==
    (/\ result.op \in {"filter_with_sharding", "legacy_filter_with_sharding"}
     /\ result.err = "none") =>
        /\ \A w \in WorkingCounts :
               /\ WithServersWorking(w).err = "none"
               /\ WithServersWorking(w).ret = result.ret
        /\ CallMade.args.servers_working = CallMade.args.s

\* The same for app/cost_model/operations.py alone.
C29_CurrentServersWorkingNoEffect ==
    (/\ result.op = "filter_with_sharding"
     /\ result.err = "none") =>
        /\ \A w \in WorkingCounts :
               /\ WithServersWorking(w).err = "none"
               /\ WithServersWorking(w).ret = result.ret
        /\ CallMade.args.servers_working = CallMade.args.s

\* Sharding keys a collection may declare.
ShardingKeys == {"IDP", "IDW", "quantity", "location"}

\* The recorded call of filter_with_sharding, repeated on a collection
\* sharded on k.
WithShardingKey(k) ==
    filter_with_sharding(collections[result.args.coll],
                         [result.args.q EXCEPT !.sharding_key = k])

\* C28: for the same collection, filter keys, projection, statistics,
\* selectivity and servers >= 1, filter_with_sharding with the sharding key
\* among the filter keys (point lookup) never reports more than the same
\* call with a sharding key outside the filter keys (broadcast):
\* result_docs is equal, and vol_network, ram_volume_total, time_total, co2
\* and price of the point lookup are at most those of the broadcast.
C28_PointLookupAtMostBroadcast ==
    (/\ result.op = "filter_with_sharding"
     /\ result.err = "none"
     /\ result.args.q.sharding_key \in ToSet(result.args.q.filter_keys)) =>
        \A k \in ShardingKeys \ ToSet(result.args.q.filter_keys) :
            LET point == result.ret
                broadcast == WithShardingKey(k)
            IN  /\ broadcast.err = "none"
                /\ broadcast.ret.result_docs = point.result_docs
                /\ QAtMost(point.vol_network, broadcast.ret.vol_network)
                /\ QAtMost(point.ram_volume_total, broadcast.ret.ram_volume_total)
                /\ QAtMost(point.time_total, broadcast.ret.time_total)
                /\ QAtMost(point.co2, broadcast.ret.co2)
                /\ QAtMost(point.price, broadcast.ret.price)

\* A point lookup on IDP over 4 servers has returned, and the same call on
\* a collection sharded on location sends a larger network volume and reads
\* 4 times the RAM.
C28_Witness ==
    /\ result.op = "filter_with_sharding"
    /\ result.err = "none"
    /\ result.args.q.filter_keys = <<"IDP">>
    /\ result.args.q.sharding_key = "IDP"
    /\ result.args.q.servers = 4
    /\ WithShardingKey("location").err = "none"
    /\ ~QAtMost(WithShardingKey("location").ret.vol_network, result.ret.vol_network)
    /\ WithShardingKey("location").ret.ram_volume_total =
           QMul(QInt(4), result.ret.ram_volume_total)

====
